---- MODULE Spec2Model ----
(***************************************************************************)
(* State-machine model of the Stoxxo order pipeline                        *)
(* (src/Order_Processor/core): the fixed-window rate limiter, the HTTP     *)
(* send-with-retry loop of the adapters, the GridLog tailer, the order     *)
(* parser, the trading-hours validator, the configuration cache, and the   *)
(* order processor with its adapters and the grouping worker.              *)
(*                                                                         *)
(* Each component has its own specification (SpecRL, SpecRLFair,           *)
(* SpecRLBurst, SpecSend, SpecTail, SpecRot, SpecParse, SpecHours, SpecTt, *)
(* SpecCache, SpecSeq, SpecWorker, SpecWorkerFair, SpecProc, SpecQueue,    *)
(* SpecGq, SpecSys, Spec); the variables of the other components stay at   *)
(* their initial values under it.                                          *)
(***************************************************************************)
EXTENDS Integers, Sequences, FiniteSets, TLC

VARIABLES
    \* ---- AsyncFixedWindowRateLimiter (adapters.py 19-94)
    current_count,      \* self.current_count
    window_start,       \* self.window_start, None until the first acquire
    waiters,            \* self._waiters
    now,                \* asyncio event-loop clock
    acq,                \* per caller: position in acquire(), tokens asked, wake-up time
    granted_in_window,  \* history: tokens granted since the last window roll
    rolls,              \* history: number of window rolls (elapsed >= period)
    \* ---- _send_mapped_order / _send_batch_mapped_order (adapters.py 588-820)
    snd_pc,             \* "idle" | "loop" | "done"
    snd_variant,        \* "single" (_send_mapped_order) | "batch" (_send_batch_mapped_order)
    provider_method,    \* self.provider_method
    retry_count,        \* local retry_count
    last_error,         \* local last_error
    snd_log,            \* history: HTTP attempts and sleeps, in order
    snd_result,         \* returned (status, error message)
    \* ---- GridLogEventHandler (log_listner.py 341-481)
    file,               \* bytes of the watched GridLog.csv
    file_handle,        \* self.file_handle: "none" | "open"
    last_position,      \* self.last_position
    open_position,      \* history: offset recorded at first sight, -1 before
    forwarded,          \* history: lines handed to order_parser.process_log_line
    gate_dropped,       \* history: some notification's lines were discarded by the hours gate
    monitor_stopped,    \* LogMonitor.stop() has run
    \* ---- OrderParser (log_listner.py 47-338)
    parsed,             \* the last process_log_line call: its inputs and what it did
    \* ---- TradingHoursValidator (log_listner.py 14-74)
    hours,              \* the last is_trading_allowed call: validator, dt and the answer
    \* ---- TradetronAdapter (adapters.py 848-971)
    counter_size,       \* self.counter_size, 0 before the adapter is built
    global_conditions_map,  \* self.global_conditions_map; 0 stands for an absent key
    lookups,            \* history, per condition: the get_global_count calls so far
    mapped,             \* the last map_order_batch call: its inputs and what it returned
    \* ---- VariableCache (cache_manager.py 20-223)
    cache,              \* the five maps and _is_shutdown
    reloaded,           \* the last reload() call: the document on disk and how it ended
    \* ---- BaseAdapter.send_order, sequential strategy (adapters.py 445-455)
    seq_rate_limiter_active,    \* self.rate_limiter_active of the adapter with a delay
    seq_pc,             \* per send_order call: where it is, "none" before the call
    seq_idx,            \* per send_order call: idx of the for loop
    seq_st,             \* history, per call and order: how far the order has got
    \* ---- BaseAdapter._process_grouped_orders in detail (adapters.py 256-356)
    wk_rate_limiter_active, \* self.rate_limiter_active of the grouping adapter
    wk_order_delay_set, \* self.order_delay_seconds is not None
    wk_inflight,        \* the _send_batch_mapped_order tasks of the gather not yet finished
    wk_ok,              \* no result of the gather so far is a failure
    wk_log,             \* history: what the worker did, in order
    \* ---- GridLogEventHandler across a daily rotation (log_listner.py 375-481)
    rot_file,           \* per path: the bytes of the GridLog.csv at that path
    rot_rotation,       \* the new day's file: "absent" | "created" | "notified"
    rot_handle,         \* self.file_handle: "none" or the path it was opened on
    rot_last_position,  \* self.last_position
    rot_first_seen,     \* history, per path: the file's length when it was first opened, -1 before
    rot_out,            \* history: what each notification passed on, and from which file
    \* ---- OrderProcessor (order_processor.py)
    max_queue_size,     \* the maxsize self.order_queue was built with, 0 before that
    order_queue,        \* self.order_queue: the batches waiting, oldest first
    putters,            \* asyncio.Queue._putters: add_order calls blocked on a full queue
    add_pc,             \* per batch: position of its add_order task
    running,            \* self.running
    loop_pc,            \* start_processing: "idle" | "waiting" | "exited"
    stop_pc,            \* stop(): "none" | "awaiting" | "done"
    stop_wait,          \* the tasks stop() gathers
    disp_pc,            \* per batch: its _dispatch_and_log task
    enq_before_stop,    \* history: batches put on the queue before stop() was called
    \* ---- BaseAdapter (adapters.py 186-559)
    active,             \* per adapter: self.active
    send_pc,            \* per adapter and batch: position of send_order(batch)
    send_ret,           \* per adapter and batch: the statuses send_order returned
    send_calls,         \* history, per adapter: the batches send_order was invoked with
    proc_pc,            \* per adapter and order: position of _process_single_order
    own,                \* history, per adapter and order: the status that adapter's own sends gave
    \* ---- OrderGroupingQueue and the grouping worker (adapters.py 97-183, 256-377)
    gq,                 \* per adapter: _grouping_queue._queue
    gq_closed,          \* per adapter: _grouping_queue._closed
    not_empty,          \* per adapter: _grouping_queue._not_empty is set
    worker_pc,          \* per adapter: _processor_task: "none" | "dequeue" | "waiting" | "woken" | "sending" | "stopped"
    worker_batch,       \* per adapter: the batch the worker holds
    enqueued,           \* history, per adapter: the orders enqueue() has queued, in order
    dequeued,           \* history, per adapter: the orders dequeue_batch() has returned, in order
    \* ---- OrderObj (models.py 45-79)
    order               \* per order: the fields of the shared OrderObj

varsRL   == <<current_count, window_start, waiters, now, acq, granted_in_window, rolls>>
varsSend == <<snd_pc, snd_variant, provider_method, retry_count, last_error, snd_log, snd_result>>
varsTt   == <<counter_size, global_conditions_map, lookups, mapped>>
varsCache == <<cache, reloaded>>
varsSeq  == <<seq_rate_limiter_active, seq_pc, seq_idx, seq_st>>
varsWk   == <<wk_rate_limiter_active, wk_order_delay_set, wk_inflight, wk_ok, wk_log>>
varsRot  == <<rot_file, rot_rotation, rot_handle, rot_last_position, rot_first_seen, rot_out>>
varsLib  == <<parsed, hours, varsTt, varsCache, varsSeq, varsWk, varsRot>>
varsTail == <<file, file_handle, last_position, open_position, forwarded, gate_dropped,
             monitor_stopped, varsLib>>
varsProc == <<max_queue_size, order_queue, putters, add_pc, running, loop_pc, stop_pc, stop_wait, disp_pc,
              enq_before_stop>>
varsAd   == <<active, send_pc, send_ret, send_calls, proc_pc, own>>
varsGq   == <<gq, gq_closed, not_empty, worker_pc, worker_batch, enqueued, dequeued>>
varsOrd  == <<order>>
varsDisp == <<varsProc, varsAd, varsGq, varsOrd>>
vars     == <<varsRL, varsSend, varsTail, varsDisp>>

None == "None"

(***************************************************************************)
(* Rate limiter                                                            *)
(***************************************************************************)
Limit    == 2   \* limit: tokens per window
Period   == 2   \* period: window length, in clock ticks
NCallers == 3   \* concurrent acquire() calls
MaxTime  == 4   \* the clock stops advancing here
MaxRolls == 2   \* the history counter of window rolls stops here

Callers == 1..NCallers

\* the callers of a burst long enough to spill into a third window
BurstCallers == 1..(2 * Limit + 1)

\* every task that may call acquire()
AllCallers == Callers \cup BurstCallers

InitRL ==
    /\ current_count = 0
    /\ window_start = -1
    /\ waiters = 0
    /\ now = 0
    /\ acq = [c \in AllCallers |-> [pc |-> "idle", tokens |-> 0, wake |-> 0]]
    /\ granted_in_window = 0
    /\ rolls = 0

\* line 77, mutated: compares the count before charging
CanAcquireOffByOne(count, tokens) == count <= Limit

\* line 77, mutated: the window never fills up to the limit
CanAcquireStrict(count, tokens) == count + tokens < Limit

\* line 77: if self.current_count + tokens <= self.limit
CanAcquire(count, tokens) == count + tokens <= Limit

\* line 83, mutated: the sleep overshoots the end of the window by a period
WaitTimeTwice(elapsed) == 2 * Period - elapsed

\* line 83: wait_time = self.period - elapsed
WaitTime(elapsed) == Period - elapsed

\* lines 55-58: the call; tokens > limit raises ValueError before anything else
Acquire(c, n) ==
    /\ acq[c].pc = "idle"
    /\ IF n > Limit
         THEN /\ acq' = [acq EXCEPT ![c] = [pc |-> "error", tokens |-> n, wake |-> 0]]
              /\ UNCHANGED waiters
         ELSE /\ acq' = [acq EXCEPT ![c] = [pc |-> "loop", tokens |-> n, wake |-> 0]]
              /\ waiters' = waiters + 1
    /\ UNCHANGED <<current_count, window_start, now, granted_in_window, rolls>>
    /\ UNCHANGED <<varsSend, varsTail, varsDisp>>

\* lines 60-94: one pass of the while loop; the body under the lock has no
\* await, so it runs without interleaving
AcquireTry(c) ==
    /\ acq[c].pc = "loop"
    /\ LET ws0     == IF window_start = -1 THEN now ELSE window_start
           elapsed == now - ws0
           roll    == elapsed >= Period
           ws1     == IF roll THEN now ELSE ws0
           cnt1    == IF roll THEN 0 ELSE current_count
           el1     == IF roll THEN 0 ELSE elapsed
           gr1     == IF roll THEN 0 ELSE granted_in_window
       IN  /\ window_start' = ws1
           /\ rolls' = IF roll /\ rolls < MaxRolls THEN rolls + 1 ELSE rolls
           /\ IF CanAcquire(cnt1, acq[c].tokens)
                THEN /\ current_count' = cnt1 + acq[c].tokens
                     /\ granted_in_window' = gr1 + acq[c].tokens
                     /\ acq' = [acq EXCEPT ![c].pc = "done"]
                     /\ waiters' = waiters - 1
                ELSE /\ current_count' = cnt1
                     /\ granted_in_window' = gr1
                     /\ acq' = [acq EXCEPT ![c].pc = "sleeping",
                                           ![c].wake = now + WaitTime(el1)]
                     /\ UNCHANGED waiters
    /\ UNCHANGED now
    /\ UNCHANGED <<varsSend, varsTail, varsDisp>>

\* line 91: asyncio.sleep(wait_time) returns once the clock has reached the wake-up time
AcquireWake(c) ==
    /\ acq[c].pc = "sleeping"
    /\ now >= acq[c].wake
    /\ acq' = [acq EXCEPT ![c].pc = "loop"]
    /\ UNCHANGED <<current_count, window_start, waiters, now, granted_in_window, rolls>>
    /\ UNCHANGED <<varsSend, varsTail, varsDisp>>

\* line 62: the event-loop clock advances
Tick ==
    /\ now < MaxTime
    /\ now' = now + 1
    /\ UNCHANGED <<current_count, window_start, waiters, acq, granted_in_window, rolls>>
    /\ UNCHANGED <<varsSend, varsTail, varsDisp>>

NextRL ==
    \/ \E c \in Callers, n \in 1..(Limit + 1) : Acquire(c, n)
    \/ \E c \in Callers : AcquireTry(c)
    \/ \E c \in Callers : AcquireWake(c)
    \/ Tick

Max(x, y) == IF x >= y THEN x ELSE y

\* line 62, 91: the event-loop clock advances beyond MaxTime. The code uses the
\* clock only through now - window_start (lines 68, 71) and through the sleep
\* that ends at now + wait_time (line 91), so past MaxTime the origin of time is
\* moved by one tick instead of the clock value: window_start and the wake-up
\* times go down by one. A window_start that is a whole period old stays there
\* (elapsed >= period is all line 71 asks) and so does a wake-up time in the past.
TickShift ==
    /\ now = MaxTime
    /\ window_start' = IF window_start = -1 THEN -1
                       ELSE Max(window_start - 1, MaxTime - Period)
    /\ acq' = [c \in AllCallers |-> [acq[c] EXCEPT !.wake = Max(@ - 1, 0)]]
    /\ UNCHANGED <<current_count, waiters, now, granted_in_window, rolls>>
    /\ UNCHANGED <<varsSend, varsTail, varsDisp>>

\* the clock never stops
Advance == Tick \/ TickShift

NextRLFair ==
    \/ \E c \in Callers, n \in 1..(Limit + 1) : Acquire(c, n)
    \/ \E c \in Callers : AcquireTry(c)
    \/ \E c \in Callers : AcquireWake(c)
    \/ Tick
    \/ TickShift

\* a caller that the event loop can run now: its task is ready or its sleep is over
Runnable(c) ==
    \/ acq[c].pc = "loop"
    \/ acq[c].pc = "sleeping" /\ now >= acq[c].wake

\* lines 53-58: acquire(1) called at the instant the limiter is first used
AcquireAtStart(c) ==
    /\ now = 0
    /\ Acquire(c, 1)

\* line 62, 91: an event loop that is not held up runs what is ready before its
\* clock moves on by a whole tick
TickIdle ==
    /\ \A c \in AllCallers : ~Runnable(c)
    /\ Tick

\* a burst of acquire(1) calls on a fresh limiter, on an event loop that is not held up
NextRLBurst ==
    \/ \E c \in BurstCallers : AcquireAtStart(c)
    \/ \E c \in BurstCallers : AcquireTry(c)
    \/ \E c \in BurstCallers : AcquireWake(c)
    \/ TickIdle

(***************************************************************************)
(* HTTP send with retry                                                    *)
(***************************************************************************)
MaxRetries        == 1   \* max_retries
DefaultRetryAfter == 1   \* response.headers.get('Retry-After', 1)

Methods   == {"POST", "GET", "PUT"}
Variants  == {"single", "batch"}
\* what one pass of the try block can meet
Outcomes  == {"200", "429", "5xx", "other", "timeout", "transport", "exception"}
\* the Retry-After header of a 429 response: absent, an integer, or text int() rejects
RetryAfterHeaders == {"absent", "0", "2", "http-date"}

InitSend ==
    /\ snd_pc = "idle"
    /\ snd_variant = None
    /\ provider_method = None
    /\ retry_count = 0
    /\ last_error = None
    /\ snd_log = <<>>
    /\ snd_result = <<None, None>>

\* int(...) of line 774 / 644: TRUE when the header text is an integer literal
IsIntText(h) == h \in {"0", "2"}

IntOfText(h) == IF h = "0" THEN 0 ELSE 2

\* line 774, mutated: no default when the header is absent
RetryAfterNoDefault(h) == IF h = "absent" THEN 0 ELSE IntOfText(h)

\* lines 774 / 644: retry_after = int(response.headers.get('Retry-After', 1))
RetryAfter(h) == IF h = "absent" THEN DefaultRetryAfter ELSE IntOfText(h)

Http(o, h)  == [ev |-> "http", kind |-> o, hdr |-> IF o = "429" THEN h ELSE None, dur |-> 0]
Sleep(d)    == [ev |-> "sleep", kind |-> None, hdr |-> None, dur |-> d]

\* lines 605-607 / 725-727
SendStart(v, m) ==
    /\ snd_pc = "idle"
    /\ snd_pc' = "loop"
    /\ snd_variant' = v
    /\ provider_method' = m
    /\ retry_count' = 0
    /\ last_error' = None
    /\ snd_log' = <<>>
    /\ snd_result' = <<None, None>>
    /\ UNCHANGED <<varsRL, varsTail, varsDisp>>

\* the function returns
SendReturn(status, err) ==
    /\ snd_pc' = "done"
    /\ snd_result' = <<status, err>>

\* line 729, mutated: the while condition lets one more pass through
SendContinueOneMore(rc, le) ==
    IF rc <= MaxRetries + 1
      THEN /\ snd_pc' = "loop"
           /\ snd_result' = snd_result
      ELSE SendReturn("FAILED", IF le # None THEN le ELSE "Max retries exceeded")

\* the loop goes round (continue), or is left by the while condition or the break
SendContinue(rc, le) ==
    IF rc <= MaxRetries
      THEN /\ snd_pc' = "loop"
           /\ snd_result' = snd_result
      ELSE SendReturn("FAILED", IF le # None THEN le ELSE "Max retries exceeded")

\* lines 636-637 / 764-765: an unsupported method raises ValueError inside the try,
\* caught by `except Exception`: FAILED without any request
SendUnsupported ==
    /\ snd_pc = "loop"
    /\ provider_method \notin {"POST", "GET"}
    /\ SendReturn("FAILED", "Unsupported HTTP method")
    /\ UNCHANGED <<snd_variant, provider_method, retry_count, last_error, snd_log>>
    /\ UNCHANGED <<varsRL, varsTail, varsDisp>>

\* lines 729-820: one pass of the while loop of _send_mapped_order
SendAttemptSingle(o, h) ==
    /\ snd_pc = "loop"
    /\ snd_variant = "single"
    /\ provider_method \in {"POST", "GET"}
    /\ UNCHANGED <<snd_variant, provider_method>>
    /\ UNCHANGED <<varsRL, varsTail, varsDisp>>
    /\ LET log1 == Append(snd_log, Http(o, h)) IN
       CASE o = "200" ->
              /\ SendReturn("SENT", None)
              /\ snd_log' = log1
              /\ UNCHANGED <<retry_count, last_error>>
         [] o = "429" /\ ~IsIntText(h) /\ h # "absent" ->
              \* int() raises ValueError: `except Exception`
              /\ SendReturn("FAILED", "invalid literal for int()")
              /\ snd_log' = log1
              /\ UNCHANGED <<retry_count, last_error>>
         [] o = "429" /\ (IsIntText(h) \/ h = "absent") ->
              IF retry_count < MaxRetries
                THEN /\ snd_log' = Append(log1, Sleep(RetryAfter(h)))
                     /\ retry_count' = retry_count + 1
                     /\ snd_pc' = "loop"
                     /\ UNCHANGED <<last_error, snd_result>>
                ELSE /\ SendReturn("FAILED", "Rate limit exceeded")
                     /\ snd_log' = log1
                     /\ UNCHANGED <<retry_count, last_error>>
         [] o = "5xx" ->
              IF retry_count < MaxRetries
                THEN /\ snd_log' = log1
                     /\ retry_count' = retry_count + 1
                     /\ snd_pc' = "loop"
                     /\ UNCHANGED <<last_error, snd_result>>
                ELSE /\ SendReturn("FAILED", "Server error")
                     /\ snd_log' = log1
                     /\ UNCHANGED <<retry_count, last_error>>
         [] o = "other" ->
              /\ SendReturn("FAILED", "HTTP status")
              /\ snd_log' = log1
              /\ UNCHANGED <<retry_count, last_error>>
         [] o = "timeout" ->
              \* line 804-806 continue; else line 818 and the while condition
              /\ snd_log' = log1
              /\ last_error' = "Request timeout"
              /\ retry_count' = retry_count + 1
              /\ SendContinue(retry_count + 1, "Request timeout")
         [] o = "transport" ->
              /\ SendReturn("FAILED", "RequestError")
              /\ snd_log' = log1
              /\ UNCHANGED <<retry_count, last_error>>
         [] o = "exception" ->
              /\ SendReturn("FAILED", "Exception")
              /\ snd_log' = log1
              /\ UNCHANGED <<retry_count, last_error>>

\* lines 609-700: one pass of the while loop of _send_batch_mapped_order
SendAttemptBatch(o, h) ==
    /\ snd_pc = "loop"
    /\ snd_variant = "batch"
    /\ provider_method \in {"POST", "GET"}
    /\ UNCHANGED <<snd_variant, provider_method>>
    /\ UNCHANGED <<varsRL, varsTail, varsDisp>>
    /\ LET log1 == Append(snd_log, Http(o, h)) IN
       CASE o = "200" ->
              /\ SendReturn("SENT", None)
              /\ snd_log' = log1
              /\ UNCHANGED <<retry_count, last_error>>
         [] o = "429" /\ ~IsIntText(h) /\ h # "absent" ->
              /\ SendReturn("FAILED", "invalid literal for int()")
              /\ snd_log' = log1
              /\ UNCHANGED <<retry_count, last_error>>
         [] o = "429" /\ (IsIntText(h) \/ h = "absent") ->
              /\ last_error' = "Rate limit exceeded"
              /\ IF retry_count < MaxRetries
                   THEN /\ snd_log' = Append(log1, Sleep(RetryAfter(h)))
                        /\ retry_count' = retry_count + 1
                        /\ snd_pc' = "loop"
                        /\ UNCHANGED snd_result
                   ELSE \* falls to the break of line 698
                        /\ SendReturn("FAILED", "Rate limit exceeded")
                        /\ snd_log' = log1
                        /\ UNCHANGED retry_count
         [] o = "5xx" ->
              /\ last_error' = "Server error"
              /\ IF retry_count < MaxRetries
                   THEN /\ snd_log' = log1
                        /\ retry_count' = retry_count + 1
                        /\ snd_pc' = "loop"
                        /\ UNCHANGED snd_result
                   ELSE /\ SendReturn("FAILED", "Server error")
                        /\ snd_log' = log1
                        /\ UNCHANGED retry_count
         [] o = "other" ->
              /\ SendReturn("FAILED", "HTTP status")
              /\ snd_log' = log1
              /\ UNCHANGED <<retry_count, last_error>>
         [] o = "timeout" ->
              /\ last_error' = "Request timeout"
              /\ IF retry_count < MaxRetries
                   THEN /\ snd_log' = log1
                        /\ retry_count' = retry_count + 1
                        /\ snd_pc' = "loop"
                        /\ UNCHANGED snd_result
                   ELSE /\ SendReturn("FAILED", "Request timeout")
                        /\ snd_log' = log1
                        /\ UNCHANGED retry_count
         [] o = "transport" ->
              /\ SendReturn("FAILED", "RequestError")
              /\ snd_log' = log1
              /\ UNCHANGED <<retry_count, last_error>>
         [] o = "exception" ->
              /\ SendReturn("FAILED", "Exception")
              /\ snd_log' = log1
              /\ UNCHANGED <<retry_count, last_error>>

NextSend ==
    \/ \E v \in Variants, m \in Methods : SendStart(v, m)
    \/ SendUnsupported
    \/ \E o \in Outcomes, h \in RetryAfterHeaders : SendAttemptSingle(o, h)
    \/ \E o \in Outcomes, h \in RetryAfterHeaders : SendAttemptBatch(o, h)

(***************************************************************************)
(* Tailer                                                                  *)
(***************************************************************************)
MaxFile == 3   \* bytes the writer appends

NL    == "\n"
Bytes == {"a", "b", NL}
\* content the file already has when the watch starts
InitialFile == <<"a", NL>>

InitTail ==
    /\ file = InitialFile
    /\ file_handle = "none"
    /\ last_position = 0
    /\ open_position = -1
    /\ forwarded = <<>>
    /\ gate_dropped = FALSE
    /\ monitor_stopped = FALSE

(***************************************************************************)
(* OrderParser (log_listner.py 47-338)                                     *)
(***************************************************************************)
\* log_listner.py 250, 253: timedelta(days=1), in milliseconds
Day == 86400000
\* log_listner.py 252: 43200 seconds, in milliseconds
HalfDay == 43200000
\* log_listner.py 83-84: min_quantity and max_quantity defaults
MinQuantity == 1
MaxQuantity == 10000

\* times of day in milliseconds since midnight: 00:00:00.000, 00:00:00.001,
\* 01:00, 11:59:59.999, 12:00, 12:00:00.001, 14:00, 23:59:59.999
ClockTimes == {0, 1, 3600000, 43199999, 43200000, 43200001, 50400000, 86399999}

\* the Qty texts of a line; "missing" is a line without a Qty item
QtyTexts == {"missing", "x", "0", "1", "10000", "10001"}
\* int(text) at line 294 for the texts that are integers
IsQtyInt(t) == t \in {"0", "1", "10000", "10001"}
QtyInt(t) == CASE t = "0" -> 0 [] t = "1" -> 1 [] t = "10000" -> 10000 [] OTHER -> 10001

\* a log line, by what process_log_line looks at
Lines == [nparts   : {4, 5, 6},             \* len(line.split(','))
          log_type : {"TRADING", "INFO"},   \* parts[1]
          marker   : BOOLEAN,               \* 'Initiating Order Placement' in parts[2]
          strategy : {"active", "inactive", "unknown"},  \* parts[3] against the cache
          symbol   : {"ok", "bad"},         \* details['Symbol'] matches the pattern
          stamp_ok : BOOLEAN,               \* parts[0] is four integers HH:MM:SS:mmm
          stamp    : ClockTimes,            \* the time of day parts[0] names
          qty      : QtyTexts]              \* details['Qty']

\* the builds of pydantic the program runs on
Pydantic == {"v1", "v2"}

\* cache_manager.py 204-210: strategy_is_active; an unknown key reads False
strategy_is_active(strategy) == strategy = "active"

\* lines 222-260: _parse_datetime. clock: the datetime.now() reading of line 235, in
\* milliseconds since today's midnight; the result is on the same scale, so
\* yesterday is negative and tomorrow is Day or more
ParseDatetime(stamp_ok, stamp, clock) ==
    IF ~stamp_ok THEN clock               \* lines 258-260
    ELSE IF stamp > clock THEN stamp - Day
    ELSE IF clock - stamp > HalfDay THEN stamp + Day
    ELSE stamp

\* line 303: processing_gap = (parse_time - actual_time) in milliseconds
ProcessingGap(parse_time, actual_time) == parse_time - actual_time

\* models.py 50 (quantity : str) given the int of line 294: pydantic 1 stores
\* its text, pydantic 2 refuses it
QuantityField(pyd, q) ==
    IF pyd = "v1" THEN [ok |-> TRUE, type |-> "str", val |-> q]
                  ELSE [ok |-> FALSE, type |-> "int", val |-> q]

\* lines 314-338: _validate_order; comparing an int with a str raises
\* TypeError, which line 336 turns into False
ValidateOrder(quantity) ==
    IF quantity.type # "int" THEN FALSE
    ELSE MinQuantity <= quantity.val /\ quantity.val <= MaxQuantity

\* lines 263-310: the body of process_log_line's try block. ret: what it
\* returns; exc: the exception that leaves the block; gap_computed: line 303
\* was evaluated, gap its value
Outcome(ret, exc, gap_computed, gap) ==
    [ret |-> ret, exc |-> exc, gap_computed |-> gap_computed, gap |-> gap]

ProcessLogLineBody(line, clock, elapsed, pyd) ==
    IF line.nparts < 5 \/ line.log_type # "TRADING" \/ ~line.marker
      THEN Outcome("None", "none", FALSE, 0)                     \* lines 265-266
    ELSE IF line.nparts # 6
      THEN Outcome("None", "ValueError", FALSE, 0)               \* line 268
    ELSE IF ~strategy_is_active(line.strategy)
      THEN Outcome("None", "none", FALSE, 0)                     \* lines 270-272
    ELSE IF line.symbol # "ok"
      THEN Outcome("None", "ValueError", FALSE, 0)               \* line 283
    ELSE IF line.qty = "missing"
      THEN Outcome("None", "KeyError", FALSE, 0)                 \* line 294
    ELSE IF ~IsQtyInt(line.qty)
      THEN Outcome("None", "ValueError", FALSE, 0)               \* line 294
    ELSE LET actual_time == ParseDatetime(line.stamp_ok, line.stamp, clock)
             parse_time  == clock + elapsed
             gap         == ProcessingGap(parse_time, actual_time)
             quantity    == QuantityField(pyd, QtyInt(line.qty))
         IN  IF ~quantity.ok
               THEN Outcome("None", "ValidationError", TRUE, gap)  \* line 289
             ELSE IF ~ValidateOrder(quantity)
               THEN Outcome("None", "none", TRUE, gap)             \* lines 307-308
             ELSE Outcome("order", "none", TRUE, gap)              \* line 310

\* lines 312-314, mutated: only ValueError is caught
CaughtValueErrorOnly(r) == IF r.exc = "ValueError" THEN [r EXCEPT !.exc = "none"] ELSE r

\* lines 312-314: except Exception: log and return None
Caught(r) == IF r.exc # "none" THEN [r EXCEPT !.exc = "none", !.ret = "None"] ELSE r

NotCalled == [called |-> FALSE]

InitLib ==
    /\ parsed = NotCalled
    /\ hours = NotCalled

\* lines 262-314: one call of process_log_line. clock: the wall clock; elapsed:
\* the milliseconds between the clock readings of lines 235 and 287. The parser
\* keeps no state between calls, so a behaviour follows a single call
ProcessLogLine(line, clock, elapsed, pyd) ==
    /\ ~parsed.called
    /\ parsed' = [called |-> TRUE, line |-> line, now |-> clock, elapsed |-> elapsed,
                  pyd |-> pyd, out |-> Caught(ProcessLogLineBody(line, clock, elapsed, pyd))]
    /\ UNCHANGED <<file, file_handle, last_position, open_position, forwarded,
                   gate_dropped, monitor_stopped>>
    /\ UNCHANGED <<varsRL, varsSend, varsDisp>>
    /\ UNCHANGED <<hours, varsTt, varsCache, varsSeq, varsWk, varsRot>>

\* the parser fed with lines at any time of day
NextParse ==
    /\ ~parsed.called
    /\ \E line \in Lines, clock \in ClockTimes, elapsed \in {0, 1}, pyd \in Pydantic :
          ProcessLogLine(line, clock, elapsed, pyd)

(***************************************************************************)
(* TradingHoursValidator (log_listner.py 14-74)                            *)
(***************************************************************************)
MaxHour == 3    \* times of day are 0..MaxHour

Weekdays == 0..6        \* datetime.weekday(): Monday is 0
TimesOfDay == 0..MaxHour

\* lines 17-45: the validators __init__ can build; the weekday sets are
\* Monday to Friday (the default), the weekend, and none
Validators == [allowed_weekdays  : {0..4, {5, 6}, {}},
               trading_start     : TimesOfDay,
               trading_end       : TimesOfDay,
               enable_premarket  : BOOLEAN,
               premarket_start   : TimesOfDay,
               enable_postmarket : BOOLEAN,
               postmarket_end    : TimesOfDay]

\* lines 47-74, mutated: the regular window excludes trading_end
IsTradingAllowedEndExcluded(v, weekday, current_time) ==
    IF weekday \notin v.allowed_weekdays
      THEN <<FALSE, "Non-trading day">>
    ELSE IF v.enable_premarket /\ v.premarket_start <= current_time
                               /\ current_time < v.trading_start
      THEN <<TRUE, "Pre-market hours">>
    ELSE IF v.trading_start <= current_time /\ current_time < v.trading_end
      THEN <<TRUE, "Regular trading hours">>
    ELSE IF v.enable_postmarket /\ v.trading_end < current_time
                                /\ current_time <= v.postmarket_end
      THEN <<TRUE, "Post-market hours">>
    ELSE <<FALSE, "Outside trading hours">>

\* lines 47-74: is_trading_allowed(dt) for dt.weekday() and dt.time(); the
\* reason without the day name or time the code appends to it
IsTradingAllowed(v, weekday, current_time) ==
    IF weekday \notin v.allowed_weekdays                               \* 59-60
      THEN <<FALSE, "Non-trading day">>
    ELSE IF v.enable_premarket /\ v.premarket_start <= current_time
                               /\ current_time < v.trading_start       \* 65-66
      THEN <<TRUE, "Pre-market hours">>
    ELSE IF v.trading_start <= current_time /\ current_time <= v.trading_end  \* 68-69
      THEN <<TRUE, "Regular trading hours">>
    ELSE IF v.enable_postmarket /\ v.trading_end < current_time
                                /\ current_time <= v.postmarket_end    \* 71-72
      THEN <<TRUE, "Post-market hours">>
    ELSE <<FALSE, "Outside trading hours">>                            \* 74

\* one call validator.is_trading_allowed(dt); the validator keeps no state
\* between calls, so a behaviour follows a single call
CheckHours(v, weekday, current_time) ==
    /\ ~hours.called
    /\ hours' = [called |-> TRUE, v |-> v, weekday |-> weekday, time |-> current_time,
                 allowed |-> IsTradingAllowed(v, weekday, current_time)[1],
                 reason  |-> IsTradingAllowed(v, weekday, current_time)[2]]
    /\ UNCHANGED <<file, file_handle, last_position, open_position, forwarded,
                   gate_dropped, monitor_stopped>>
    /\ UNCHANGED <<varsRL, varsSend, varsDisp>>
    /\ UNCHANGED <<parsed, varsTt, varsCache, varsSeq, varsWk, varsRot>>

\* any validator asked about any weekday and time
NextHours ==
    /\ ~hours.called
    /\ \E v \in Validators, weekday \in Weekdays, current_time \in TimesOfDay :
          CheckHours(v, weekday, current_time)

(***************************************************************************)
(* TradetronAdapter (adapters.py 848-971)                                  *)
(***************************************************************************)
MaxCounter  == 2    \* counter_size is 1..MaxCounter
MaxBatchLen == 2    \* orders in one map_order_batch call
MaxLookups  == 4    \* get_global_count calls per condition

\* line 918: condition = INDEX_SIDE_OPT
Conditions == {"NIFTY_BUY_CE", "NIFTY_SELL_PE"}

\* the orders a batch is made of, by the fields map_order_batch reads. A str
\* of decimal digits is the sequence of its digits: "75" is <<7, 5>>
\* (models.py 50: OrderObj.quantity is a str)
TtOrders == { [condition |-> "NIFTY_BUY_CE", quantity |-> <<7, 5>>,
               strike |-> "25000", expiry |-> "2025-10-16"],
              [condition |-> "NIFTY_SELL_PE", quantity |-> <<5>>,
               strike |-> "25100", expiry |-> "2025-10-23"] }

\* cache_manager.py 15-18, 142-158: the WebhookConfig lists a strategy can have
WebhookConfigs == { <<>>,
                    <<[url |-> "U", multiplier |-> 1]>>,
                    <<[url |-> "U", multiplier |-> 3]>>,
                    <<[url |-> "U", multiplier |-> 2], [url |-> "V", multiplier |-> 3]>>,
                    <<[url |-> "U", multiplier |-> 0]>> }

\* line 911: the values random.randint(1, 10000) is drawn from here
RandomIndexVals == {1, 10000}

\* Python's str * int: the text repeated
RECURSIVE StrTimes(_, _)
StrTimes(text, m) == IF m <= 0 THEN <<>> ELSE text \o StrTimes(text, m - 1)

\* Python's int(str) for a text of decimal digits; the empty text raises
RECURSIVE IntOfDigits(_)
IntOfDigits(text) ==
    IF text = <<>> THEN 0
    ELSE 10 * IntOfDigits(SubSeq(text, 1, Len(text) - 1)) + text[Len(text)]

\* lines 864-875, mutated: the wrap happens one lookup late
GetGlobalCountLate(map, size, condition) ==
    IF map[condition] > size
      THEN [map |-> [map EXCEPT ![condition] = 1], num |-> 1]
      ELSE [map |-> [map EXCEPT ![condition] = map[condition] + 1],
            num |-> map[condition] + 1]

\* lines 864-875: get_global_count
GetGlobalCount(map, size, condition) ==
    IF map[condition] >= size
      THEN [map |-> [map EXCEPT ![condition] = 1], num |-> 1]
      ELSE [map |-> [map EXCEPT ![condition] = map[condition] + 1],
            num |-> map[condition] + 1]

\* lines 915-941: the loop over the orders; the four slots of each order, in
\* order, and the counters after it
RECURSIVE MapSlots(_, _, _, _)
MapSlots(orders, map, size, random_index_val) ==
    IF orders = <<>> THEN [map |-> map, slots |-> <<>>]
    ELSE LET o     == Head(orders)
             g     == GetGlobalCount(map, size, o.condition)
             rest  == MapSlots(Tail(orders), g.map, size, random_index_val)
             four   == << [kind |-> "Signal",   num |-> g.num, int |-> random_index_val,
                          text |-> <<>>, str |-> ""],
                         [kind |-> "Quantity", num |-> g.num, int |-> 0,
                          text |-> o.quantity, str |-> ""],
                         [kind |-> "Strike",   num |-> g.num, int |-> 0,
                          text |-> <<>>, str |-> o.strike],
                         [kind |-> "Expiry",   num |-> g.num, int |-> 0,
                          text |-> <<>>, str |-> o.expiry] >>
         IN  [map |-> rest.map, slots |-> four \o rest.slots]

\* lines 952-959: the value of a slot in the copy made for webhook wc; a
\* quantity becomes int(value * multiplier)
Scaled(slot, wc) ==
    IF slot.kind = "Quantity"
      THEN [slot EXCEPT !.int = IntOfDigits(StrTimes(slot.text, wc.multiplier)),
                        !.text = <<>>]
      ELSE slot

\* line 959: int('') raises ValueError
ScalingRaises(slots, wc) ==
    \E i \in 1..Len(slots) :
        slots[i].kind = "Quantity" /\ StrTimes(slots[i].text, wc.multiplier) = <<>>

\* lines 945-961: one payload per webhook config
Payloads(slots, webhook_configs) ==
    [j \in 1..Len(webhook_configs) |->
        [auth_token |-> webhook_configs[j].url,
         slots |-> [i \in 1..Len(slots) |-> Scaled(slots[i], webhook_configs[j])]]]

\* the orders of a batch that have the given condition
RECURSIVE CountOf(_, _)
CountOf(orders, condition) ==
    IF orders = <<>> THEN 0
    ELSE (IF Head(orders).condition = condition THEN 1 ELSE 0) + CountOf(Tail(orders), condition)

TtBatches == UNION {[1..n -> TtOrders] : n \in 1..MaxBatchLen}

InitTt ==
    /\ counter_size = 0
    /\ global_conditions_map = [c \in Conditions |-> 0]
    /\ lookups = [c \in Conditions |-> 0]
    /\ mapped = NotCalled

\* lines 851-859: TradetronAdapter.__init__ with config.COUNTER_SIZE = size
NewTradetronAdapter(size) ==
    /\ counter_size = 0
    /\ counter_size' = size
    /\ UNCHANGED <<global_conditions_map, lookups, mapped>>
    /\ UNCHANGED <<file, file_handle, last_position, open_position, forwarded,
                   gate_dropped, monitor_stopped>>
    /\ UNCHANGED <<varsRL, varsSend, varsDisp>>
    /\ UNCHANGED <<parsed, hours, varsCache, varsSeq, varsWk, varsRot>>

\* the call recorded in m failed for want of a webhook config (lines 901-904)
NoWebhookFailure(m) == m.called /\ m.raised /\ m.webhook_configs = <<>>

\* lines 897-919, mutated: the webhook configs are looked at after the loop
\* over the orders
MapAfterNoWebhookCounted(map, orders, size) == MapSlots(orders, map, size, 1).map

\* lines 897-904: the ValueError is raised before the loop (915-919) that calls
\* get_global_count, so the counters are those the call found
MapAfterNoWebhook(map, orders, size) == map

\* lines 880-971: map_order_batch(orders) when the strategy of orders[0] has
\* the given webhook configs and randint gives random_index_val
MapOrderBatch(orders, webhook_configs, random_index_val) ==
    /\ counter_size > 0
    /\ \A c \in Conditions : lookups[c] + CountOf(orders, c) <= MaxLookups
    /\ IF webhook_configs = <<>>
         THEN \* lines 901-904: raises before any counter is touched
              /\ mapped' = [called |-> TRUE, orders |-> orders, webhook_configs |-> webhook_configs,
                            random_index_val |-> random_index_val, raised |-> TRUE,
                            payloads |-> <<>>]
              /\ global_conditions_map' = MapAfterNoWebhook(global_conditions_map, orders, counter_size)
              /\ UNCHANGED lookups
         ELSE LET m == MapSlots(orders, global_conditions_map, counter_size, random_index_val)
                  raises == \E j \in 1..Len(webhook_configs) :
                                ScalingRaises(m.slots, webhook_configs[j])
              IN  /\ global_conditions_map' = m.map
                  /\ lookups' = [c \in Conditions |-> lookups[c] + CountOf(orders, c)]
                  /\ mapped' = [called |-> TRUE, orders |-> orders,
                                webhook_configs |-> webhook_configs,
                                random_index_val |-> random_index_val, raised |-> raises,
                                payloads |-> IF raises THEN <<>>
                                             ELSE Payloads(m.slots, webhook_configs)]
    /\ UNCHANGED counter_size
    /\ UNCHANGED <<file, file_handle, last_position, open_position, forwarded,
                   gate_dropped, monitor_stopped>>
    /\ UNCHANGED <<varsRL, varsSend, varsDisp>>
    /\ UNCHANGED <<parsed, hours, varsCache, varsSeq, varsWk, varsRot>>

\* the grouping adapter mapping one batch after another
NextTt ==
    \/ \E size \in 1..MaxCounter : NewTradetronAdapter(size)
    \/ \E orders \in TtBatches, webhook_configs \in WebhookConfigs,
          random_index_val \in RandomIndexVals :
            MapOrderBatch(orders, webhook_configs, random_index_val)

(***************************************************************************)
(* VariableCache (cache_manager.py 20-223)                                 *)
(***************************************************************************)
MaxVersion == 2     \* the documents are told apart by a version 1..MaxVersion

StrategyNames == {"s1", "s2"}
\* the providers _load_mappings files webhook lists under (lines 114, 122)
CacheProviders == {"tradetron", "algotest"}
Indexes == {"NIFTY", "BANKNIFTY"}

\* the YAML document on disk: ok is FALSE for a missing, empty or malformed
\* file (lines 94-102); every value of the document is its version, so that a
\* value of an older document can be told from a new one
Documents == [ok         : BOOLEAN,
              strategies : {<<>>, <<"s1">>, <<"s2">>, <<"s1", "s2">>},
              indexes    : SUBSET Indexes,
              version    : 1..MaxVersion]

\* a dict of the cache is a function to the stored value; 0 is an absent key
EmptyCache ==
    [strategy_urls |-> [k \in StrategyNames \X CacheProviders |-> 0],
     active_strategy_map |-> [n \in StrategyNames |-> 0],
     index_mappings |-> [i \in Indexes |-> 0],
     lot_size_mappings |-> [i \in Indexes |-> 0],
     monthly_expiry_mappings |-> [i \in Indexes |-> 0],
     is_shutdown |-> FALSE]

\* config.get(section, {}) at lines 130-132: the dict the attribute is set to
Section(doc) == [i \in Indexes |-> IF i \in doc.indexes THEN doc.version ELSE 0]

\* line 222: self._index_mappings.clear(), the only map reload() clears
Cleared(c) == [c EXCEPT !.index_mappings = [i \in Indexes |-> 0]]

\* lines 86-140: _load_mappings. models.py 38-43 has no Providers.ALGOTEST, so
\* line 122 raises AttributeError for the first strategy of the document, after
\* line 114 has stored its Tradetron list; lines 124-132 run only for a document
\* without strategies
LoadMappings(c, doc) ==
    IF c.is_shutdown THEN [cache |-> c, raised |-> FALSE]            \* 88-90
    ELSE IF ~doc.ok THEN [cache |-> c, raised |-> TRUE]               \* 94-102, 138-140
    ELSE IF doc.strategies # <<>>
      THEN [cache |-> [c EXCEPT !.strategy_urls[<<doc.strategies[1], "tradetron">>] =
                                    doc.version],                     \* 105-114
            raised |-> TRUE]                                          \* 122, 138-140
    ELSE [cache |-> [c EXCEPT !.index_mappings = Section(doc),        \* 130-132
                              !.lot_size_mappings = Section(doc),
                              !.monthly_expiry_mappings = Section(doc)],
          raised |-> FALSE]

InitCache ==
    /\ cache = EmptyCache
    /\ reloaded = NotCalled

\* lines 215-223: reload() with the given document on disk
Reload(doc) ==
    /\ LET r == IF cache.is_shutdown
                  THEN [cache |-> cache, raised |-> FALSE]            \* 217-219
                  ELSE LoadMappings(Cleared(cache), doc)
       IN  /\ cache' = r.cache
           /\ reloaded' = [called |-> TRUE, doc |-> doc, raised |-> r.raised,
                           was_shutdown |-> cache.is_shutdown]
    /\ UNCHANGED <<file, file_handle, last_position, open_position, forwarded,
                   gate_dropped, monitor_stopped>>
    /\ UNCHANGED <<varsRL, varsSend, varsDisp>>
    /\ UNCHANGED <<parsed, hours, varsTt, varsSeq, varsWk, varsRot>>

\* lines 69-84: shutdown() clears the five maps
CacheShutdown ==
    /\ ~cache.is_shutdown
    /\ cache' = [EmptyCache EXCEPT !.is_shutdown = TRUE]
    /\ UNCHANGED reloaded
    /\ UNCHANGED <<file, file_handle, last_position, open_position, forwarded,
                   gate_dropped, monitor_stopped>>
    /\ UNCHANGED <<varsRL, varsSend, varsDisp>>
    /\ UNCHANGED <<parsed, hours, varsTt, varsSeq, varsWk, varsRot>>

\* the cache reloaded from whatever document is on disk, until it is shut down
NextCache ==
    \/ \E doc \in Documents : Reload(doc)
    \/ CacheShutdown

(***************************************************************************)
(* BaseAdapter.send_order, sequential strategy (adapters.py 445-455)       *)
(***************************************************************************)
SeqBatchSize == 2   \* batch_size of the batches sent

\* the send_order calls, which the dispatcher may have running at once
\* (order_processor.py 48-50)
SeqCalls == {"first", "second"}

InitSeq ==
    /\ seq_rate_limiter_active = FALSE
    /\ seq_pc = [c \in SeqCalls |-> "none"]
    /\ seq_idx = [c \in SeqCalls |-> 0]
    /\ seq_st = [c \in SeqCalls |-> [i \in 1..SeqBatchSize |-> "pending"]]

\* line 454, mutated: the delay follows every order
SleepsAfterEvery(idx, batch_size) == idx <= batch_size

\* line 454: idx < batch_size (order_delay_seconds is set in this strategy)
SleepsAfter(idx, batch_size) == idx < batch_size

\* the rest of the model outside this component
SeqOthersUnchanged ==
    /\ UNCHANGED <<file, file_handle, last_position, open_position, forwarded,
                   gate_dropped, monitor_stopped>>
    /\ UNCHANGED <<varsRL, varsSend, varsDisp>>
    /\ UNCHANGED <<parsed, hours, varsTt, varsCache, varsWk, varsRot>>

\* adapters.py 201, config.py 16: RATE_LIMITER_ACTIVE is False unless the
\* configuration, read before any batch is sent, turns it on
EnableRateLimiter ==
    /\ \A c \in SeqCalls : seq_pc[c] = "none"
    /\ ~seq_rate_limiter_active
    /\ seq_rate_limiter_active' = TRUE
    /\ UNCHANGED <<seq_pc, seq_idx, seq_st>>
    /\ SeqOthersUnchanged

\* lines 446-448: send_order enters the sequential strategy with its first order
SeqEnter(c) ==
    /\ seq_pc[c] = "none"
    /\ seq_pc' = [seq_pc EXCEPT ![c] = "top"]
    /\ seq_idx' = [seq_idx EXCEPT ![c] = 1]
    /\ UNCHANGED <<seq_rate_limiter_active, seq_st>>
    /\ SeqOthersUnchanged

\* lines 448-452: the loop body starts: the token is asked for when the limiter
\* is active, otherwise _process_single_order starts at once
SeqTop(c) ==
    /\ seq_pc[c] = "top"
    /\ IF seq_rate_limiter_active
         THEN /\ seq_pc' = [seq_pc EXCEPT ![c] = "acquire"]
              /\ seq_st' = [seq_st EXCEPT ![c][seq_idx[c]] = "acquiring"]
         ELSE /\ seq_pc' = [seq_pc EXCEPT ![c] = "process"]
              /\ seq_st' = [seq_st EXCEPT ![c][seq_idx[c]] = "processing"]
    /\ UNCHANGED <<seq_rate_limiter_active, seq_idx>>
    /\ SeqOthersUnchanged

\* lines 450-452: rate_limiter.acquire() returns, _process_single_order starts
SeqAcquired(c) ==
    /\ seq_pc[c] = "acquire"
    /\ seq_pc' = [seq_pc EXCEPT ![c] = "process"]
    /\ seq_st' = [seq_st EXCEPT ![c][seq_idx[c]] = "processing"]
    /\ UNCHANGED <<seq_rate_limiter_active, seq_idx>>
    /\ SeqOthersUnchanged

\* lines 452-455, 465-483: _process_single_order ends. When it raises, the loop
\* is left (476-481); otherwise the delay starts unless this was the last
\* order, after which send_order returns
SeqProcessed(c, raises) ==
    /\ seq_pc[c] = "process"
    /\ IF raises
         THEN /\ seq_pc' = [seq_pc EXCEPT ![c] = "returned"]
              /\ seq_st' = [seq_st EXCEPT ![c][seq_idx[c]] = "raised"]
              /\ UNCHANGED seq_idx
         ELSE IF SleepsAfter(seq_idx[c], SeqBatchSize)
           THEN /\ seq_pc' = [seq_pc EXCEPT ![c] = "sleep"]
                /\ seq_st' = [seq_st EXCEPT ![c][seq_idx[c]] = "sleeping"]
                /\ UNCHANGED seq_idx
         ELSE IF seq_idx[c] < SeqBatchSize
           THEN /\ seq_pc' = [seq_pc EXCEPT ![c] = "top"]
                /\ seq_st' = [seq_st EXCEPT ![c][seq_idx[c]] = "processed"]
                /\ seq_idx' = [seq_idx EXCEPT ![c] = @ + 1]
         ELSE /\ seq_pc' = [seq_pc EXCEPT ![c] = "returned"]
              /\ seq_st' = [seq_st EXCEPT ![c][seq_idx[c]] = "processed"]
              /\ UNCHANGED seq_idx
    /\ UNCHANGED seq_rate_limiter_active
    /\ SeqOthersUnchanged

\* line 455 and 448: asyncio.sleep(order_delay_seconds) returns and the loop
\* goes on with the next order, or ends
SeqSlept(c) ==
    /\ seq_pc[c] = "sleep"
    /\ seq_st' = [seq_st EXCEPT ![c][seq_idx[c]] = "rested"]
    /\ IF seq_idx[c] < SeqBatchSize
         THEN /\ seq_pc' = [seq_pc EXCEPT ![c] = "top"]
              /\ seq_idx' = [seq_idx EXCEPT ![c] = @ + 1]
         ELSE /\ seq_pc' = [seq_pc EXCEPT ![c] = "returned"]
              /\ UNCHANGED seq_idx
    /\ UNCHANGED seq_rate_limiter_active
    /\ SeqOthersUnchanged

\* an adapter with a per-order delay serving the dispatcher's send_order calls
NextSeq ==
    \/ EnableRateLimiter
    \/ \E c \in SeqCalls : SeqEnter(c)
    \/ \E c \in SeqCalls : SeqTop(c)
    \/ \E c \in SeqCalls : SeqAcquired(c)
    \/ \E c \in SeqCalls, raises \in BOOLEAN : SeqProcessed(c, raises)
    \/ \E c \in SeqCalls : SeqSlept(c)

\* position of the first newline of s, 0 when there is none
FirstNL(s) == IF \E i \in 1..Len(s) : s[i] = NL
                THEN CHOOSE i \in 1..Len(s) : s[i] = NL /\ \A j \in 1..(i - 1) : s[j] # NL
                ELSE 0

RECURSIVE ReadLines(_)
\* line 433: handle.readlines() -- every line up to EOF with its newline kept; the
\* text after the last newline is returned as a last, unterminated line
ReadLines(s) ==
    IF s = <<>> THEN <<>>
    ELSE LET i == FirstNL(s) IN
         IF i = 0 THEN <<s>>
         ELSE <<SubSeq(s, 1, i)>> \o ReadLines(SubSeq(s, i + 1, Len(s)))

\* the text from offset pos to EOF (seek(pos), then read)
From(s, pos) == SubSeq(s, pos + 1, Len(s))

\* the broker terminal appends to the file
FileAppend(b) ==
    /\ Len(file) < Len(InitialFile) + MaxFile
    /\ file' = Append(file, b)
    /\ UNCHANGED <<file_handle, last_position, open_position, forwarded, gate_dropped,
                   monitor_stopped, varsLib>>
    /\ UNCHANGED <<varsRL, varsSend, varsDisp>>

\* lines 441-445, mutated: the gate is applied to the first line only
GatedFirstLineOnly(new_lines, allowed) == IF allowed THEN new_lines ELSE Tail(new_lines)

\* lines 441-445: the lines that go on to the parser; the hours gate is asked once
\* and returns before any line is parsed
Gated(new_lines, allowed) == IF allowed THEN new_lines ELSE <<>>

\* lines 432-445, mutated: a notification the gate discards leaves the offset
PositionAfterReadIfAllowed(pos, eof, allowed) == IF allowed THEN eof ELSE pos

\* lines 432-434: self.last_position = handle.tell() after readlines(), before
\* the hours gate is asked
PositionAfterRead(pos, eof, allowed) == eof

\* lines 375-388, 410-466: on_modified for the target file. openOk: open() succeeds;
\* allowed: is_trading_allowed() at this moment
OnModified(openOk, allowed) ==
    /\ UNCHANGED <<file, monitor_stopped, varsLib>>
    /\ UNCHANGED <<varsRL, varsSend, varsDisp>>
    /\ IF file_handle = "none" /\ ~openOk
         THEN \* lines 418-420, 428-429
              UNCHANGED <<file_handle, last_position, open_position, forwarded, gate_dropped>>
         ELSE LET first == file_handle = "none"
                  pos   == IF first THEN Len(file) ELSE last_position
                  new_lines == ReadLines(From(file, pos))
              IN  /\ file_handle' = "open"
                  /\ open_position' = IF first THEN Len(file) ELSE open_position
                  /\ last_position' = PositionAfterRead(pos, Len(file), allowed)
                  /\ IF new_lines = <<>>
                       THEN UNCHANGED <<forwarded, gate_dropped>>
                       ELSE /\ forwarded' = forwarded \o Gated(new_lines, allowed)
                            /\ gate_dropped' = (gate_dropped \/ ~allowed)

NextTail ==
    \/ \E b \in Bytes : FileAppend(b)
    \/ \E openOk \in BOOLEAN, allowed \in BOOLEAN : OnModified(openOk, allowed)

(***************************************************************************)
(* Order processor, adapters, grouping worker                              *)
(***************************************************************************)
NBatches   == 3   \* batches the tailer hands over
QueueCap   == 2   \* largest max_queue_size
GroupLimit == 2   \* group_limit of the grouping adapter
NUrls      == 2   \* webhook configs a strategy has for the per-order adapter
MaxDispatched == 1   \* batches dispatched to the adapters under Spec
MaxTracked == 2   \* batches followed from hand-over to the end of dispatch under SpecProc

Batches == 1..NBatches
\* the orders of batch b (the same OrderObj objects go to every adapter): the
\* first batch has two orders, the later ones one each
BatchOrders(b) == IF b = 1 THEN <<1, 2>> ELSE <<b + 1>>
Orders == 1..(NBatches + 1)

\* order_processor.py 17-19: the registered adapters, in registration order: the
\* grouping adapter (adapters.py 848-971) and a per-order adapter (974-1025)
AdapterList == <<"tradetron", "algotest">>
Adapters    == {AdapterList[i] : i \in 1..Len(AdapterList)}
\* config.py 55, 70: GROUPING_ENABLED
grouping_enabled(a) == a = "tradetron"

Range(s) == {s[i] : i \in 1..Len(s)}

\* models.py 60-67: the defaults of a freshly parsed order
NewOrder == [status |-> "PENDING", sent_time |-> None, pipeline_latency |-> None,
             end_to_end_latency |-> None, adapter_name |-> None, error_message |-> None]

InitDisp ==
    /\ max_queue_size = 0
    /\ order_queue = <<>>
    /\ putters = <<>>
    /\ add_pc = [b \in Batches |-> "none"]
    /\ running = FALSE
    /\ loop_pc = "idle"
    /\ stop_pc = "none"
    /\ stop_wait = {}
    /\ disp_pc = [b \in Batches |-> "none"]
    /\ enq_before_stop = {}
    /\ active = [a \in Adapters |-> TRUE]
    /\ send_pc = [a \in Adapters |-> [b \in Batches |-> "none"]]
    /\ send_ret = [a \in Adapters |-> [b \in Batches |-> <<>>]]
    /\ send_calls = [a \in Adapters |-> <<>>]
    /\ proc_pc = [a \in Adapters |-> [o \in Orders |-> "none"]]
    /\ own = [a \in Adapters |-> [o \in Orders |-> None]]
    /\ gq = [a \in Adapters |-> <<>>]
    /\ gq_closed = [a \in Adapters |-> FALSE]
    /\ not_empty = [a \in Adapters |-> FALSE]
    /\ worker_pc = [a \in Adapters |-> "none"]
    /\ worker_batch = [a \in Adapters |-> <<>>]
    /\ enqueued = [a \in Adapters |-> <<>>]
    /\ dequeued = [a \in Adapters |-> <<>>]
    /\ order = [o \in Orders |-> NewOrder]

\* models.py 74-79: update_object sets the given fields and leaves the others
UpdateObject(ord, o, upd) == [ord EXCEPT ![o] = upd @@ @]

\* models.py 95-129: dump_data_to_log computes the latencies into locals and emits
\* them in the log record; it assigns nothing to the order
DumpDataToLog(rec) ==
    [order_status |-> rec.status,
     sent_timestamp |-> rec.sent_time,
     pipeline_latency |-> IF rec.sent_time # None THEN "ms" ELSE None,
     end_to_end_latency |-> IF rec.sent_time # None THEN "ms" ELSE None,
     error_message |-> rec.error_message]

\* adapters.py 526-540, mutated: a partly delivered order is left for a later retry
FinalStatusPartialPending(k, n) ==
    IF k = n THEN "SENT" ELSE IF k > 0 THEN "PENDING" ELSE "FAILED"

\* adapters.py 526-540: SENT only when every URL succeeded
FinalStatus(k, n) == IF k = n THEN "SENT" ELSE "FAILED"

\* adapters.py 528-539, mutated: a partial delivery is reported as a total failure
FinalErrorNoPartial(k, n) ==
    IF k = n THEN None ELSE "Failed to send to all URLs"

\* adapters.py 528-539
FinalError(k, n) ==
    IF k = n THEN None
    ELSE IF k > 0 THEN "Sent to k/n URLs" ELSE "Failed to send to all URLs"

\* adapters.py 358-367: only batch[0] is updated
MarkBatchSuccess(ord, a, batch) ==
    UpdateObject(ord, batch[1],
                 [status |-> "SENT", adapter_name |-> a, sent_time |-> "now",
                  error_message |-> None])

\* adapters.py 369-377: only batch[0] is updated
MarkBatchFailed(ord, a, batch, err) ==
    UpdateObject(ord, batch[1],
                 [status |-> "FAILED", adapter_name |-> a, sent_time |-> None,
                  error_message |-> err])

StatusesOf(ord, batch) == [i \in 1..Len(batch) |-> ord[batch[i]].status]

\* ---- construction

\* order_processor.py 11-15, main.py: OrderProcessor(max_queue_size = n) builds
\* the bounded queue
NewOrderProcessor(n) ==
    /\ max_queue_size = 0
    /\ max_queue_size' = n
    /\ UNCHANGED <<order_queue, putters, add_pc, running, loop_pc, stop_pc, stop_wait,
                   disp_pc, enq_before_stop>>
    /\ UNCHANGED <<varsRL, varsSend, varsTail, varsAd, varsGq, varsOrd>>

\* ---- tailer hand-over and add_order

\* log_listner.py 461-465: call_soon_threadsafe(create_task, add_order(valid_orders))
HandOver(b) ==
    /\ UNCHANGED max_queue_size
    /\ max_queue_size > 0
    /\ add_pc[b] = "none"
    /\ \A c \in Batches : c < b => add_pc[c] # "none"
    /\ add_pc' = [add_pc EXCEPT ![b] = "start"]
    /\ UNCHANGED <<order_queue, putters, running, loop_pc, stop_pc, stop_wait, disp_pc,
                   enq_before_stop>>
    /\ UNCHANGED <<varsRL, varsSend, varsTail, varsAd, varsGq, varsOrd>>

\* order_processor.py 22-32 with asyncio.Queue.put: the batch is appended when there
\* is room, otherwise the task waits as a putter (QueueFull is never raised by put)
AddOrder(b) ==
    /\ UNCHANGED max_queue_size
    /\ add_pc[b] \in {"start", "woken"}
    /\ add_pc[b] = "start" => \A c \in Batches : c < b => add_pc[c] # "start"
    /\ IF Len(order_queue) < max_queue_size
         THEN /\ order_queue' = Append(order_queue, b)
              /\ add_pc' = [add_pc EXCEPT ![b] = "done"]
              /\ enq_before_stop' = IF stop_pc = "none" THEN enq_before_stop \cup {b}
                                                        ELSE enq_before_stop
              /\ UNCHANGED putters
         ELSE /\ putters' = Append(putters, b)
              /\ add_pc' = [add_pc EXCEPT ![b] = "blocked"]
              /\ UNCHANGED <<order_queue, enq_before_stop>>
    /\ UNCHANGED <<running, loop_pc, stop_pc, stop_wait, disp_pc>>
    /\ UNCHANGED <<varsRL, varsSend, varsTail, varsAd, varsGq, varsOrd>>

\* ---- OrderProcessor

\* order_processor.py 34-43: start_processing up to its first wait
StartProcessing ==
    /\ UNCHANGED max_queue_size
    /\ max_queue_size > 0
    /\ loop_pc = "idle"
    /\ running' = TRUE
    /\ loop_pc' = "waiting"
    /\ UNCHANGED <<order_queue, putters, add_pc, stop_pc, stop_wait, disp_pc, enq_before_stop>>
    /\ UNCHANGED <<varsRL, varsSend, varsTail, varsAd, varsGq, varsOrd>>

\* order_processor.py 48-50, mutated: the loop awaits the dispatch it started
LoopAwaitsDispatchInline == \E b \in Batches : disp_pc[b] \in {"created", "gathering"}

\* order_processor.py 48-50: the dispatch is started with create_task and kept in
\* _processing_tasks; the loop does not await it
LoopAwaitsDispatch == FALSE

\* order_processor.py 39-50: the get returns a batch, a dispatch task is created, and
\* the while condition is evaluated again
LoopGet ==
    /\ UNCHANGED max_queue_size
    /\ loop_pc = "waiting"
    /\ order_queue # <<>>
    /\ ~LoopAwaitsDispatch
    /\ LET b == Head(order_queue) IN
       /\ order_queue' = Tail(order_queue)
       /\ disp_pc' = [disp_pc EXCEPT ![b] = "created"]
       /\ IF putters # <<>>
            THEN /\ add_pc' = [add_pc EXCEPT ![Head(putters)] = "woken"]
                 /\ putters' = Tail(putters)
            ELSE UNCHANGED <<add_pc, putters>>
    /\ loop_pc' = IF running THEN "waiting" ELSE "exited"
    /\ UNCHANGED <<running, stop_pc, stop_wait, enq_before_stop>>
    /\ UNCHANGED <<varsRL, varsSend, varsTail, varsAd, varsGq, varsOrd>>

\* order_processor.py 43-45: the 1 s timeout passes with the queue empty
LoopTimeout ==
    /\ UNCHANGED max_queue_size
    /\ loop_pc = "waiting"
    /\ order_queue = <<>>
    /\ loop_pc' = IF running THEN "waiting" ELSE "exited"
    /\ UNCHANGED <<order_queue, putters, add_pc, running, stop_pc, stop_wait, disp_pc,
                   enq_before_stop>>
    /\ UNCHANGED <<varsRL, varsSend, varsTail, varsAd, varsGq, varsOrd>>

\* order_processor.py 95-99: stop() up to the gather of the tasks in flight; its
\* callers (main.py 95-107, the tests) call it after start_processing has begun
Stop ==
    /\ UNCHANGED max_queue_size
    /\ stop_pc = "none"
    /\ loop_pc # "idle"
    /\ running' = FALSE
    /\ LET tasks == {b \in Batches : disp_pc[b] \in {"created", "gathering"}} IN
       /\ stop_wait' = tasks
       /\ stop_pc' = IF tasks = {} THEN "done" ELSE "awaiting"
    /\ UNCHANGED <<order_queue, putters, add_pc, loop_pc, disp_pc, enq_before_stop>>
    /\ UNCHANGED <<varsRL, varsSend, varsTail, varsAd, varsGq, varsOrd>>

\* order_processor.py 99-100: the gathered tasks have finished
StopReturn ==
    /\ UNCHANGED max_queue_size
    /\ stop_pc = "awaiting"
    /\ \A b \in stop_wait : disp_pc[b] = "done"
    /\ stop_pc' = "done"
    /\ UNCHANGED <<order_queue, putters, add_pc, running, loop_pc, stop_wait, disp_pc,
                   enq_before_stop>>
    /\ UNCHANGED <<varsRL, varsSend, varsTail, varsAd, varsGq, varsOrd>>

\* order_processor.py 84-87, mutated: only the first registered adapter is sent to
DispatchTargetsFirstOnly == {AdapterList[1]}

\* order_processor.py 84-87: one send_order per registered adapter
DispatchTargets == Adapters

\* order_processor.py 60-91: _dispatch_and_log -> dispatch up to the gather
Dispatch(b) ==
    /\ UNCHANGED max_queue_size
    /\ disp_pc' = [disp_pc EXCEPT ![b] = "gathering"]
    /\ send_pc' = [a \in Adapters |->
                     IF a \in DispatchTargets THEN [send_pc[a] EXCEPT ![b] = "start"]
                                              ELSE send_pc[a]]
    /\ UNCHANGED <<order_queue, putters, add_pc, running, loop_pc, stop_pc, stop_wait,
                   enq_before_stop>>
    /\ UNCHANGED <<active, send_ret, send_calls, proc_pc, own>>
    /\ UNCHANGED <<varsRL, varsSend, varsTail, varsGq, varsOrd>>

\* order_processor.py 48, 60-66: the dispatch task of a dequeued batch runs
DispatchStart(b) ==
    /\ disp_pc[b] = "created"
    /\ Dispatch(b)

\* order_processor.py 91-93: gather(return_exceptions=True) has every result
DispatchDone(b) ==
    /\ UNCHANGED max_queue_size
    /\ disp_pc[b] = "gathering"
    /\ \A a \in DispatchTargets : send_pc[a][b] \in {"returned", "raised"}
    /\ disp_pc' = [disp_pc EXCEPT ![b] = "done"]
    /\ UNCHANGED <<order_queue, putters, add_pc, running, loop_pc, stop_pc, stop_wait,
                   enq_before_stop>>
    /\ UNCHANGED <<varsRL, varsSend, varsTail, varsAd, varsGq, varsOrd>>

\* ---- BaseAdapter.send_order

\* adapters.py 131, mutated: only the first order of the list is queued
EnqueueFirstOnly(q, orders) == Append(q, orders[1])

\* adapters.py 121-134: enqueue extends the queue by the orders, in their order
Enqueue(q, orders) == q \o orders

\* adapters.py 397, 419, 481, mutated: a single status for the whole batch
AllStatusOne(batch, st) == <<st>>

\* adapters.py 397, 419, 481: [OrderStatus.X] * batch_size
AllStatus(batch, st) == [i \in 1..Len(batch) |-> st]

\* lines 248-254, mutated: every call creates a worker task
StartGroupingProcessorAlways(task) == "dequeue"

\* adapters.py 248-254: _start_grouping_processor creates the worker task only
\* while _processor_task is None; the task object is kept after the worker exits
StartGroupingProcessor(task) == IF task # "none" THEN task ELSE "dequeue"

\* adapters.py 379-430: send_order(batch) up to its first wait
SendOrderStart(a, b) ==
    /\ send_pc[a][b] = "start"
    /\ send_calls' = [send_calls EXCEPT ![a] = Append(@, [id |-> b, orders |-> BatchOrders(b)])]
    /\ LET batch == BatchOrders(b) IN
       IF ~active[a]
         THEN \* lines 392-397
              /\ send_pc' = [send_pc EXCEPT ![a][b] = "returned"]
              /\ send_ret' = [send_ret EXCEPT ![a][b] = AllStatus(batch, "FAILED")]
              /\ UNCHANGED <<proc_pc, varsGq>>
         ELSE IF grouping_enabled(a)
           THEN \* lines 405-419, 248-254, 121-134
                /\ worker_pc' = [worker_pc EXCEPT ![a] = StartGroupingProcessor(@)]
                /\ IF gq_closed[a]
                     THEN /\ send_pc' = [send_pc EXCEPT ![a][b] = "raised"]
                          /\ UNCHANGED <<send_ret, gq, not_empty, enqueued>>
                     ELSE /\ gq' = [gq EXCEPT ![a] = Enqueue(@, batch)]
                          /\ enqueued' = [enqueued EXCEPT ![a] = @ \o batch]
                          /\ not_empty' = [not_empty EXCEPT ![a] = TRUE]
                          /\ send_pc' = [send_pc EXCEPT ![a][b] = "returned"]
                          /\ send_ret' = [send_ret EXCEPT ![a][b] = AllStatus(batch, "PENDING")]
                /\ UNCHANGED <<proc_pc, gq_closed, worker_batch, dequeued>>
           ELSE \* lines 427-430: full concurrency (config.py 68-69)
                /\ proc_pc' = [proc_pc EXCEPT ![a] =
                                 [o \in Orders |-> IF o \in Range(batch) THEN "start" ELSE @[o]]]
                /\ send_pc' = [send_pc EXCEPT ![a][b] = "gathering"]
                /\ UNCHANGED <<send_ret, varsGq>>
    /\ UNCHANGED <<active, own>>
    /\ UNCHANGED <<varsRL, varsSend, varsTail, varsProc, varsOrd>>

\* what map_order gives: URL configs, nothing, or an exception
MapResults == {"mapped", "unmapped", "raises"}

\* adapters.py 485-559: _process_single_order maps the order and sends it to its
\* n URLs, k of them answering SENT; an order that maps to nothing is marked
\* FAILED (495-502); an exception marks it FAILED and is raised again (550-559)
ProcessSingleOrder(a, o, res, k) ==
    /\ proc_pc[a][o] = "start"
    /\ res # "mapped" => k = 0
    /\ LET st  == IF res = "mapped" THEN FinalStatus(k, NUrls) ELSE "FAILED"
           err == CASE res = "mapped"   -> FinalError(k, NUrls)
                    [] res = "unmapped" -> "Mapping failed"
                    [] res = "raises"   -> "exception text"
       IN  /\ order' = UpdateObject(order, o,
                          [status |-> st, adapter_name |-> a, error_message |-> err,
                           sent_time |-> IF st = "SENT" THEN "now" ELSE None])
           /\ own' = [own EXCEPT ![a][o] = st]
    /\ proc_pc' = [proc_pc EXCEPT ![a][o] = IF res = "raises" THEN "raised" ELSE "done"]
    /\ UNCHANGED <<active, send_pc, send_ret, send_calls>>
    /\ UNCHANGED <<varsRL, varsSend, varsTail, varsProc, varsGq>>

\* adapters.py 430, 465-483: the gather of send_order ends, by the first exception
\* or with every order processed; the statuses are read from the order objects
SendOrderFinish(a, b) ==
    /\ send_pc[a][b] = "gathering"
    /\ LET batch == BatchOrders(b) IN
       \/ /\ \E o \in Range(batch) : proc_pc[a][o] = "raised"
          /\ send_ret' = [send_ret EXCEPT ![a][b] = AllStatus(batch, "FAILED")]
       \/ /\ \A o \in Range(batch) : proc_pc[a][o] = "done"
          /\ send_ret' = [send_ret EXCEPT ![a][b] = StatusesOf(order, batch)]
    /\ send_pc' = [send_pc EXCEPT ![a][b] = "returned"]
    /\ UNCHANGED <<active, send_calls, proc_pc, own>>
    /\ UNCHANGED <<varsRL, varsSend, varsTail, varsProc, varsGq, varsOrd>>

\* ---- the grouping worker

\* adapters.py 153, mutated: the whole queue is taken, whatever the group limit
MinTakesAll(x, y) == y

\* adapters.py 153: min(self.group_limit, len(self._queue))
Min(x, y) == IF x <= y THEN x ELSE y

\* adapters.py 263-288, 343-348 with dequeue_batch 141-172: the worker takes up to
\* group_limit orders and maps them; a mapping error marks the batch failed
WorkerDequeue(a, mapOk) ==
    /\ worker_pc[a] \in {"dequeue", "woken"}
    /\ IF worker_pc[a] = "dequeue" /\ ~active[a]
         THEN /\ worker_pc' = [worker_pc EXCEPT ![a] = "stopped"]
              /\ UNCHANGED <<gq, not_empty, worker_batch, dequeued, varsOrd>>
         ELSE IF gq[a] # <<>>
           THEN LET n     == Min(GroupLimit, Len(gq[a]))
                    batch == SubSeq(gq[a], 1, n)
                    rest  == SubSeq(gq[a], n + 1, Len(gq[a]))
                IN  /\ gq' = [gq EXCEPT ![a] = rest]
                    /\ dequeued' = [dequeued EXCEPT ![a] = @ \o batch]
                    /\ not_empty' = [not_empty EXCEPT ![a] = IF rest = <<>> THEN FALSE ELSE @]
                    /\ IF mapOk
                         THEN /\ worker_batch' = [worker_batch EXCEPT ![a] = batch]
                              /\ worker_pc' = [worker_pc EXCEPT ![a] = "sending"]
                              /\ UNCHANGED varsOrd
                         ELSE /\ order' = MarkBatchFailed(order, a, batch, "Batch mapping failed")
                              /\ worker_pc' = [worker_pc EXCEPT ![a] = "dequeue"]
                              /\ UNCHANGED worker_batch
           ELSE IF gq_closed[a]
             THEN /\ worker_pc' = [worker_pc EXCEPT ![a] = "stopped"]
                  /\ UNCHANGED <<gq, not_empty, worker_batch, dequeued, varsOrd>>
             ELSE /\ worker_pc' = [worker_pc EXCEPT ![a] = "waiting"]
                  /\ UNCHANGED <<gq, not_empty, worker_batch, dequeued, varsOrd>>
    /\ UNCHANGED <<gq_closed, enqueued>>
    /\ UNCHANGED <<varsRL, varsSend, varsTail, varsProc, varsAd>>

\* adapters.py 172: _not_empty.wait() returns, and dequeue_batch looks at the
\* queue again (the worker is still inside dequeue_batch, past the active test)
WorkerWake(a) ==
    /\ worker_pc[a] = "waiting"
    /\ not_empty[a]
    /\ worker_pc' = [worker_pc EXCEPT ![a] = "woken"]
    /\ UNCHANGED <<gq, gq_closed, not_empty, worker_batch, enqueued, dequeued>>
    /\ UNCHANGED <<varsRL, varsSend, varsTail, varsProc, varsAd, varsOrd>>

\* adapters.py 299-341: the sends of the batch (and the inter-batch delay) are over;
\* the batch is marked by the overall outcome
WorkerFinish(a, success) ==
    /\ worker_pc[a] = "sending"
    /\ order' = IF success THEN MarkBatchSuccess(order, a, worker_batch[a])
                           ELSE MarkBatchFailed(order, a, worker_batch[a], "send error")
    /\ worker_batch' = [worker_batch EXCEPT ![a] = <<>>]
    /\ worker_pc' = [worker_pc EXCEPT ![a] = "dequeue"]
    /\ UNCHANGED <<gq, gq_closed, not_empty, enqueued, dequeued>>
    /\ UNCHANGED <<varsRL, varsSend, varsTail, varsProc, varsAd>>

\* line 182, mutated: close() sets the flag and leaves the event as it is
EventAfterCloseUntouched(event) == event

\* adapters.py 178-182: close() sets _not_empty
EventAfterClose(event) == TRUE

\* adapters.py 822-830, 179-183: shutdown() clears active and closes the grouping
\* queue, which sets the event the worker waits on
Shutdown(a) ==
    /\ active[a]
    /\ active' = [active EXCEPT ![a] = FALSE]
    /\ IF grouping_enabled(a)
         THEN /\ gq_closed' = [gq_closed EXCEPT ![a] = TRUE]
              /\ not_empty' = [not_empty EXCEPT ![a] = EventAfterClose(@)]
         ELSE UNCHANGED <<gq_closed, not_empty>>
    /\ UNCHANGED <<send_pc, send_ret, send_calls, proc_pc, own>>
    /\ UNCHANGED <<gq, worker_pc, worker_batch, enqueued, dequeued>>
    /\ UNCHANGED <<varsRL, varsSend, varsTail, varsProc, varsOrd>>

\* adapters.py 379-483 as the dispatcher sees it: send_order(batch) is
\* invoked with the dispatched batch and later returns its statuses or raises
SendOrderRun(a, b, raises) ==
    /\ send_pc[a][b] = "start"
    /\ send_calls' = [send_calls EXCEPT ![a] = Append(@, [id |-> b, orders |-> BatchOrders(b)])]
    /\ send_pc' = [send_pc EXCEPT ![a][b] = IF raises THEN "raised" ELSE "returned"]
    /\ UNCHANGED <<active, send_ret, proc_pc, own>>
    /\ UNCHANGED <<varsRL, varsSend, varsTail, varsProc, varsGq, varsOrd>>

\* order_processor.py 39-50, 60-91 for the adapters: the loop hands the batches to
\* dispatch one after the other, in queue order
LoopDispatch(b) ==
    /\ b <= MaxDispatched
    /\ disp_pc[b] = "none"
    /\ \A c \in Batches : c < b => disp_pc[c] # "none"
    /\ Dispatch(b)

\* log_listner.py 461-465: the hand-overs followed through their whole dispatch
HandOverTracked(b) ==
    /\ b <= MaxTracked
    /\ HandOver(b)

\* order_processor.py 22-50, 95-97: the queue between the tailer's hand-overs and
\* the loop, without the dispatch tasks the loop creates
NextQueue ==
    \/ \E n \in 1..QueueCap : NewOrderProcessor(n)
    \/ \E b \in Batches : HandOver(b)
    \/ \E b \in Batches : AddOrder(b)
    \/ StartProcessing
    \/ LoopGet
    \/ LoopTimeout
    \/ Stop

\* the processor: queue, loop, stop and dispatch tasks; the adapters by their calls
NextProc ==
    \/ \E n \in 1..QueueCap : NewOrderProcessor(n)
    \/ \E b \in Batches : HandOverTracked(b)
    \/ \E b \in Batches : AddOrder(b)
    \/ StartProcessing
    \/ LoopGet
    \/ LoopTimeout
    \/ Stop
    \/ StopReturn
    \/ \E b \in Batches : DispatchStart(b)
    \/ \E b \in Batches : DispatchDone(b)
    \/ \E a \in Adapters, b \in Batches, raises \in BOOLEAN : SendOrderRun(a, b, raises)

\* the adapters on the batches the loop dispatches: send_order, the per-order
\* sends and the grouping worker, on the shared order objects
NextDisp ==
    \/ \E b \in Batches : LoopDispatch(b)
    \/ \E a \in Adapters, b \in Batches : SendOrderStart(a, b)
    \/ \E a \in Adapters, o \in Orders, res \in MapResults, k \in 0..NUrls :
          ProcessSingleOrder(a, o, res, k)
    \/ \E a \in Adapters, b \in Batches : SendOrderFinish(a, b)
    \/ \E a \in Adapters, mapOk \in BOOLEAN : WorkerDequeue(a, mapOk)
    \/ \E a \in Adapters : WorkerWake(a)
    \/ \E a \in Adapters, success \in BOOLEAN : WorkerFinish(a, success)
    \/ \E a \in Adapters : Shutdown(a)

\* order_processor.py 39-50, 60-91: every batch is handed to dispatch, in queue order
LoopDispatchAll(b) ==
    /\ disp_pc[b] = "none"
    /\ \A c \in Batches : c < b => disp_pc[c] # "none"
    /\ Dispatch(b)

\* adapters.py 404-419: send_order of an adapter that groups
GroupedSendOrder(a, b) ==
    /\ grouping_enabled(a)
    /\ SendOrderStart(a, b)

\* adapters.py 121-183, 256-356, 404-419, 822-830: the grouping queue of an
\* adapter between the send_order calls that fill it and the worker that
\* empties it, for all the batches
NextGq ==
    \/ \E b \in Batches : LoopDispatchAll(b)
    \/ \E a \in Adapters, b \in Batches : GroupedSendOrder(a, b)
    \/ \E a \in Adapters, mapOk \in BOOLEAN : WorkerDequeue(a, mapOk)
    \/ \E a \in Adapters : WorkerWake(a)
    \/ \E a \in Adapters, success \in BOOLEAN : WorkerFinish(a, success)
    \/ \E a \in Adapters : Shutdown(a)

\* log_listner.py 595-603, 470-481: LogMonitor.stop() closes the tailer's file
\* handle and stops the observer
LogMonitorStop ==
    /\ ~monitor_stopped
    /\ loop_pc # "idle"
    /\ monitor_stopped' = TRUE
    /\ file_handle' = "none"
    /\ last_position' = 0
    /\ UNCHANGED <<file, open_position, forwarded, gate_dropped, varsLib>>
    /\ UNCHANGED <<varsRL, varsSend, varsDisp>>

\* main.py 95-107: OrderProcessingSystem.stop() after the monitor is stopped:
\* order_processor.stop() and nothing else; no adapter's shutdown() is called
SystemStop ==
    /\ monitor_stopped
    /\ Stop

\* adapters.py 379-483 for an adapter that does not group, as the dispatcher sees it
UngroupedSendOrder(a, b, raises) ==
    /\ ~grouping_enabled(a)
    /\ SendOrderRun(a, b, raises)

\* main.py 81-107 with order_processor.py and adapters.py: the running system
\* from the tailer's hand-overs to the grouping worker, and its stop()
NextSys ==
    \/ \E n \in 1..QueueCap : NewOrderProcessor(n)
    \/ \E b \in Batches : HandOverTracked(b)
    \/ \E b \in Batches : AddOrder(b)
    \/ StartProcessing
    \/ LoopGet
    \/ LoopTimeout
    \/ \E b \in Batches : DispatchStart(b)
    \/ \E b \in Batches : DispatchDone(b)
    \/ \E a \in Adapters, b \in Batches : GroupedSendOrder(a, b)
    \/ \E a \in Adapters, b \in Batches, raises \in BOOLEAN : UngroupedSendOrder(a, b, raises)
    \/ \E a \in Adapters, mapOk \in BOOLEAN : WorkerDequeue(a, mapOk)
    \/ \E a \in Adapters : WorkerWake(a)
    \/ \E a \in Adapters, success \in BOOLEAN : WorkerFinish(a, success)
    \/ LogMonitorStop
    \/ SystemStop
    \/ StopReturn

(***************************************************************************)
(* BaseAdapter._process_grouped_orders step by step (adapters.py 256-356)  *)
(***************************************************************************)
\* config.py 55-58: the grouping adapter is built with the rate limiter active
\* and a delay of one second (adapters.py 201, 210)
InitWk ==
    /\ wk_rate_limiter_active = TRUE
    /\ wk_order_delay_set = TRUE
    /\ wk_inflight = 0
    /\ wk_ok = TRUE
    /\ wk_log = <<>>

\* the adapter has served nothing yet
Unused(a) == worker_pc[a] = "none" /\ send_calls[a] = <<>> /\ active[a]

\* the rest of the model outside the grouping adapter's configuration
WkConfigOthersUnchanged ==
    /\ UNCHANGED <<file, file_handle, last_position, open_position, forwarded,
                   gate_dropped, monitor_stopped>>
    /\ UNCHANGED <<varsRL, varsSend, varsDisp>>
    /\ UNCHANGED <<parsed, hours, varsTt, varsCache, varsSeq, varsRot>>
    /\ UNCHANGED <<wk_inflight, wk_ok, wk_log>>

\* src/config_manager.py 774-777, adapters.py 201: the configuration read at
\* start-up has RATE_LIMITER_ACTIVE unticked
DisableRateLimiter ==
    /\ \A a \in Adapters : Unused(a)
    /\ wk_rate_limiter_active
    /\ wk_rate_limiter_active' = FALSE
    /\ UNCHANGED wk_order_delay_set
    /\ WkConfigOthersUnchanged

\* config.py 23-48, adapters.py 210: the configuration read at start-up has
\* ORDER_DELAY_SECONDS null
DisableOrderDelay ==
    /\ \A a \in Adapters : Unused(a)
    /\ wk_order_delay_set
    /\ wk_order_delay_set' = FALSE
    /\ UNCHANGED wk_rate_limiter_active
    /\ WkConfigOthersUnchanged

\* what the worker's steps leave alone
WkOthersUnchanged ==
    /\ UNCHANGED <<wk_rate_limiter_active, wk_order_delay_set>>
    /\ UNCHANGED <<file, file_handle, last_position, open_position, forwarded,
                   gate_dropped, monitor_stopped>>
    /\ UNCHANGED <<parsed, hours, varsTt, varsCache, varsSeq, varsRot>>
    /\ UNCHANGED <<varsRL, varsSend, varsProc, varsAd>>
    /\ UNCHANGED <<gq_closed, enqueued>>

\* line 277: if self.rate_limiter_active
AsksToken(limiter_active) == limiter_active

\* adapters.py 263-277 with dequeue_batch 141-172: the loop test and one pass of
\* dequeue_batch under its lock: a batch of up to group_limit orders, the empty
\* batch of a closed queue (the worker leaves the loop, 267-269), or the wait
GroupingDequeue(a) ==
    /\ worker_pc[a] \in {"dequeue", "woken"}
    /\ IF worker_pc[a] = "dequeue" /\ ~active[a]
         THEN /\ worker_pc' = [worker_pc EXCEPT ![a] = "stopped"]
              /\ wk_log' = Append(wk_log, "inactive")
              /\ UNCHANGED <<gq, not_empty, worker_batch, dequeued>>
         ELSE IF gq[a] # <<>>
           THEN LET n     == Min(GroupLimit, Len(gq[a]))
                    batch == SubSeq(gq[a], 1, n)
                    rest  == SubSeq(gq[a], n + 1, Len(gq[a]))
                IN  /\ gq' = [gq EXCEPT ![a] = rest]
                    /\ dequeued' = [dequeued EXCEPT ![a] = @ \o batch]
                    /\ not_empty' = [not_empty EXCEPT ![a] = IF rest = <<>> THEN FALSE ELSE @]
                    /\ worker_batch' = [worker_batch EXCEPT ![a] = batch]
                    /\ worker_pc' = [worker_pc EXCEPT ![a] =
                                       IF AsksToken(wk_rate_limiter_active) THEN "acquire" ELSE "map"]
                    /\ wk_log' = Append(wk_log, "dequeue")
           ELSE IF gq_closed[a]
             THEN /\ worker_pc' = [worker_pc EXCEPT ![a] = "stopped"]
                  /\ wk_log' = Append(wk_log, "empty")
                  /\ UNCHANGED <<gq, not_empty, worker_batch, dequeued>>
             ELSE /\ worker_pc' = [worker_pc EXCEPT ![a] = "waiting"]
                  /\ UNCHANGED <<gq, not_empty, worker_batch, dequeued, wk_log>>
    /\ UNCHANGED <<wk_inflight, wk_ok, order>>
    /\ WkOthersUnchanged

\* line 278, mutated: one token for each order of the batch
TokensAskedPerOrder(batch) == Len(batch)

\* line 278: acquire(tokens=1)
TokensAsked(batch) == 1

\* line 278: rate_limiter.acquire(tokens=1) returns with what it asked for
GroupingAcquired(a) ==
    /\ worker_pc[a] = "acquire"
    /\ worker_pc' = [worker_pc EXCEPT ![a] = "map"]
    /\ wk_log' = wk_log \o [i \in 1..TokensAsked(worker_batch[a]) |-> "token"]
    /\ UNCHANGED <<gq, not_empty, worker_batch, dequeued, wk_inflight, wk_ok, order>>
    /\ WkOthersUnchanged

\* lines 288, 343-348: after the batch is marked the loop goes on
AfterBatchError(a) == "dequeue"

\* lines 281-299, 343-348: map_order_batch and the start of one
\* _send_batch_mapped_order task per mapped order; nothing mapped (283-288) or an
\* exception (343-348) marks the batch failed and the loop goes on
GroupingMap(a, res, n) ==
    /\ worker_pc[a] = "map"
    /\ IF res = "mapped"
         THEN /\ wk_inflight' = n
              /\ wk_ok' = TRUE
              /\ worker_pc' = [worker_pc EXCEPT ![a] = "sending"]
              /\ wk_log' = wk_log \o <<"map", "send">>
              /\ UNCHANGED <<worker_batch, order>>
         ELSE /\ order' = MarkBatchFailed(order, a, worker_batch[a],
                                          IF res = "unmapped" THEN "Batch mapping failed"
                                                              ELSE "exception text")
              /\ worker_batch' = [worker_batch EXCEPT ![a] = <<>>]
              /\ worker_pc' = [worker_pc EXCEPT ![a] = AfterBatchError(a)]
              /\ wk_log' = wk_log \o <<"map", "status">>
              /\ UNCHANGED <<wk_inflight, wk_ok>>
    /\ UNCHANGED <<gq, not_empty, dequeued>>
    /\ WkOthersUnchanged

\* lines 297-299, 314-328: one _send_batch_mapped_order of the gather ends, with
\* (SENT, None), a failure pair or an exception
GroupingSendDone(a, sent) ==
    /\ worker_pc[a] = "sending"
    /\ wk_inflight > 0
    /\ wk_inflight' = wk_inflight - 1
    /\ wk_ok' = (wk_ok /\ sent)
    /\ wk_log' = Append(wk_log, "done")
    /\ UNCHANGED <<gq, not_empty, worker_pc, worker_batch, dequeued, order>>
    /\ WkOthersUnchanged

\* line 299, mutated: the tasks are started and not awaited
GatherReturnsAtOnce(inflight) == TRUE

\* line 299: asyncio.gather returns when every task has ended
GatherReturns(inflight) == inflight = 0

\* lines 310-341: the batch is marked by the overall outcome and the loop goes on
RecordBatch(a) ==
    /\ order' = IF wk_ok THEN MarkBatchSuccess(order, a, worker_batch[a])
                         ELSE MarkBatchFailed(order, a, worker_batch[a], "send error")
    /\ worker_batch' = [worker_batch EXCEPT ![a] = <<>>]
    /\ worker_pc' = [worker_pc EXCEPT ![a] = "dequeue"]

\* lines 299-341: the gather returns; with a delay configured the worker starts
\* its sleep (302-307), otherwise it records the batch at once
GroupingGathered(a) ==
    /\ worker_pc[a] = "sending"
    /\ GatherReturns(wk_inflight)
    /\ IF wk_order_delay_set
         THEN /\ worker_pc' = [worker_pc EXCEPT ![a] = "delay"]
              /\ wk_log' = Append(wk_log, "sleep")
              /\ UNCHANGED <<worker_batch, order>>
         ELSE /\ RecordBatch(a)
              /\ wk_log' = Append(wk_log, "status")
    /\ UNCHANGED <<gq, not_empty, dequeued, wk_inflight, wk_ok>>
    /\ WkOthersUnchanged

\* lines 307-341: asyncio.sleep(order_delay_seconds) returns and the batch is
\* recorded
GroupingSlept(a) ==
    /\ worker_pc[a] = "delay"
    /\ RecordBatch(a)
    /\ wk_log' = wk_log \o <<"slept", "status">>
    /\ UNCHANGED <<gq, not_empty, dequeued, wk_inflight, wk_ok>>
    /\ WkOthersUnchanged

\* order_processor.py 39-50: the batches the loop has dispatched so far
MaxGrouped == 2
LoopDispatchGrouped(b) ==
    /\ b <= MaxGrouped
    /\ LoopDispatchAll(b)

\* the worker's own steps
WorkerStep(a) ==
    \/ GroupingDequeue(a)
    \/ WorkerWake(a)
    \/ GroupingAcquired(a)
    \/ \E res \in MapResults, n \in 1..NUrls : GroupingMap(a, res, n)
    \/ \E sent \in BOOLEAN : GroupingSendDone(a, sent)
    \/ GroupingGathered(a)
    \/ GroupingSlept(a)

\* adapters.py 97-183, 248-356, 379-419, 822-830: the grouping adapter between
\* the send_order calls of the dispatcher, its worker and shutdown()
NextWorker ==
    \/ DisableRateLimiter
    \/ DisableOrderDelay
    \/ \E b \in Batches : LoopDispatchGrouped(b)
    \/ \E a \in Adapters, b \in Batches : GroupedSendOrder(a, b)
    \/ \E a \in Adapters : GroupingDequeue(a)
    \/ \E a \in Adapters : WorkerWake(a)
    \/ \E a \in Adapters : GroupingAcquired(a)
    \/ \E a \in Adapters, res \in MapResults, n \in 1..NUrls : GroupingMap(a, res, n)
    \/ \E a \in Adapters, sent \in BOOLEAN : GroupingSendDone(a, sent)
    \/ \E a \in Adapters : GroupingGathered(a)
    \/ \E a \in Adapters : GroupingSlept(a)
    \/ \E a \in Adapters : Shutdown(a)

(***************************************************************************)
(* GridLogEventHandler across a daily rotation (log_listner.py 375-481)    *)
(***************************************************************************)
MaxRotFile == 2   \* bytes the writer appends to each file

\* the two GridLog.csv under the watched root: the one of the day the watch
\* starts and the one the terminal creates at the rotation
Paths == {"day1", "day2"}
RotBytes == {"a", NL}

InitRot ==
    /\ rot_file = [f \in Paths |-> IF f = "day1" THEN InitialFile ELSE <<>>]
    /\ rot_rotation = "absent"
    /\ rot_handle = "none"
    /\ rot_last_position = 0
    /\ rot_first_seen = [f \in Paths |-> -1]
    /\ rot_out = <<>>

\* the rest of the model outside the handler and its files
RotOthersUnchanged ==
    /\ UNCHANGED <<file, file_handle, last_position, open_position, forwarded,
                   gate_dropped, monitor_stopped>>
    /\ UNCHANGED <<varsRL, varsSend, varsDisp>>
    /\ UNCHANGED <<parsed, hours, varsTt, varsCache, varsSeq, varsWk>>

\* the broker terminal creates the new day's file
RotCreate ==
    /\ rot_rotation = "absent"
    /\ rot_rotation' = "created"
    /\ UNCHANGED <<rot_file, rot_handle, rot_last_position, rot_first_seen, rot_out>>
    /\ RotOthersUnchanged

\* the broker terminal appends to a file that exists
RotAppend(f, b) ==
    /\ f = "day2" => rot_rotation # "absent"
    /\ Len(rot_file[f]) < MaxRotFile + (IF f = "day1" THEN Len(InitialFile) ELSE 0)
    /\ rot_file' = [rot_file EXCEPT ![f] = Append(@, b)]
    /\ UNCHANGED <<rot_rotation, rot_handle, rot_last_position, rot_first_seen, rot_out>>
    /\ RotOthersUnchanged

\* lines 410-422: _get_file_handle opens the event's path only when no handle is
\* held; a held handle is returned whatever the path of the event
HandleFor(h, event_path) == IF h = "none" THEN event_path ELSE h

\* lines 410-466: _process_file_changes(file_path) with the handle h and the
\* offset lp it finds. openOk: open() succeeds; allowed: is_trading_allowed()
ProcessFileChanges(event_path, openOk, allowed, h, lp) ==
    IF h = "none" /\ ~openOk
      THEN \* lines 418-420, 428-429
           /\ rot_handle' = "none"
           /\ rot_last_position' = lp
           /\ UNCHANGED <<rot_first_seen, rot_out>>
      ELSE LET f   == HandleFor(h, event_path)
               pos == IF f # h THEN Len(rot_file[f]) ELSE lp
               new_lines == ReadLines(From(rot_file[f], pos))
           IN  /\ rot_handle' = f
               /\ rot_last_position' = PositionAfterRead(pos, Len(rot_file[f]), allowed)
               /\ rot_first_seen' = IF f # h /\ rot_first_seen[f] = -1
                                      THEN [rot_first_seen EXCEPT ![f] = Len(rot_file[f])]
                                      ELSE rot_first_seen
               /\ rot_out' = IF Gated(new_lines, allowed) = <<>> THEN rot_out
                             ELSE Append(rot_out, [event |-> event_path, from |-> f, lo |-> pos,
                                                   lines |-> Gated(new_lines, allowed)])

\* lines 375-388: on_modified for a GridLog.csv that exists; the events of a
\* path come in order, its created-event first
OnModifiedAt(event_path, openOk, allowed) ==
    /\ event_path = "day2" => rot_rotation = "notified"
    /\ ProcessFileChanges(event_path, openOk, allowed, rot_handle, rot_last_position)
    /\ UNCHANGED <<rot_file, rot_rotation>>
    /\ RotOthersUnchanged

\* lines 390-408, 471-481: on_created for the new day's file: close() drops the
\* handle, the offset is reset, and the file is processed
OnCreated(openOk, allowed) ==
    /\ rot_rotation = "created"
    /\ rot_rotation' = "notified"
    /\ ProcessFileChanges("day2", openOk, allowed, "none", 0)
    /\ UNCHANGED rot_file
    /\ RotOthersUnchanged

NextRot ==
    \/ RotCreate
    \/ \E f \in Paths, b \in RotBytes : RotAppend(f, b)
    \/ \E f \in Paths, openOk \in BOOLEAN, allowed \in BOOLEAN : OnModifiedAt(f, openOk, allowed)
    \/ \E openOk \in BOOLEAN, allowed \in BOOLEAN : OnCreated(openOk, allowed)

(***************************************************************************)
(* Specifications                                                          *)
(***************************************************************************)
Init == InitRL /\ InitSend /\ InitTail /\ InitLib /\ InitTt /\ InitCache /\ InitSeq /\ InitWk /\ InitRot
        /\ InitDisp

SpecRL   == Init /\ [][NextRL]_vars
\* the event loop does not stay idle while a task is ready (AcquireTry) or a
\* timer is due (AcquireWake), and its clock keeps advancing
SpecRLFair ==
    /\ Init /\ [][NextRLFair]_vars
    /\ WF_vars(Advance)
    /\ WF_vars(\E c \in Callers : AcquireTry(c))
    /\ WF_vars(\E c \in Callers : AcquireWake(c))
SpecRLBurst == Init /\ [][NextRLBurst]_vars
SpecSend == Init /\ [][NextSend]_vars
SpecTail == Init /\ [][NextTail]_vars
SpecProc == Init /\ [][NextProc]_vars
SpecQueue == Init /\ [][NextQueue]_vars
SpecGq   == Init /\ [][NextGq]_vars
SpecSys  == Init /\ [][NextSys]_vars
SpecParse == Init /\ [][NextParse]_vars
SpecHours == Init /\ [][NextHours]_vars
SpecTt    == Init /\ [][NextTt]_vars
SpecCache == Init /\ [][NextCache]_vars
SpecSeq   == Init /\ [][NextSeq]_vars
SpecWorker == Init /\ [][NextWorker]_vars
SpecRot   == Init /\ [][NextRot]_vars
\* the event loop runs a worker that is ready: every step of the worker is a
\* task made ready by the loop or a wait that ends (a set event, a granted
\* token, an HTTP answer or time-out, a sleep that elapses)
SpecWorkerFair ==
    /\ Init /\ [][NextWorker]_vars
    /\ WF_vars(\E a \in Adapters : WorkerStep(a))
Spec     == Init /\ [][NextDisp]_vars

(***************************************************************************)
(* Properties                                                              *)
(***************************************************************************)

\* C1: under SpecRL, in every reachable state 0 <= current_count <= limit, and
\* the tokens granted since the last window roll never total more than limit.
C1_WindowBound ==
    /\ 0 <= current_count
    /\ current_count <= Limit
    /\ granted_in_window <= Limit

\* C1 witness: after a window roll the window is full again and a caller that
\* did not fit is sleeping until the window ends.
C1_Witness ==
    /\ rolls >= 1
    /\ current_count = Limit
    /\ granted_in_window = Limit
    /\ \E c \in Callers : acq[c].pc = "sleeping"
    /\ \E c \in Callers : acq[c].pc = "done"

\* the newline-terminated lines among the lines of s
CompleteLines(s) == SelectSeq(ReadLines(s), LAMBDA l : l[Len(l)] = NL)

\* the tailer saw the file first at the start of a line, and the trading-hours
\* gate has discarded nothing
TailedFromLineStart ==
    /\ file_handle = "open"
    /\ ~gate_dropped
    /\ open_position = 0 \/ file[open_position] = NL

\* C2 (as stated; violated): under SpecTail, the lines forwarded so far are
\* exactly the complete lines appended after the first sight and read so far,
\* each once and in file order.
C2_ExactlyOnceInOrder ==
    TailedFromLineStart =>
        forwarded = CompleteLines(SubSeq(file, open_position + 1, last_position))

\* C3 (as stated; violated): under SpecTail, every line forwarded to the parser
\* ends with its newline.
C3_NoFragment ==
    \A i \in 1..Len(forwarded) : forwarded[i][Len(forwarded[i])] = NL

\* the grouping worker of adapter a finishes the batch it dequeued in this step:
\* by the outcome of its sends, or by a failed mapping
WorkerFinishesBatch(a) ==
    \/ worker_pc[a] = "sending" /\ worker_pc'[a] = "dequeue"
    \/ /\ worker_pc[a] \in {"dequeue", "woken"}
       /\ worker_pc'[a] = "dequeue"
       /\ Len(gq'[a]) < Len(gq[a])

\* the batch the worker of adapter a finishes in a WorkerFinishesBatch step
FinishedBatch(a) ==
    IF worker_pc[a] = "sending" THEN worker_batch[a]
    ELSE SubSeq(gq[a], 1, Len(gq[a]) - Len(gq'[a]))

\* C4 (as stated; violated): under Spec, when the grouping worker has finished a
\* dequeued batch, every order of the batch has the same status, SENT or FAILED.
C4_UniformFinalStatus ==
    [][\A a \in Adapters :
          WorkerFinishesBatch(a) =>
              \A i \in 1..Len(FinishedBatch(a)) :
                  /\ order'[FinishedBatch(a)[i]].status \in {"SENT", "FAILED"}
                  /\ order'[FinishedBatch(a)[i]].status
                       = order'[FinishedBatch(a)[1]].status]_vars

\* C5: under Spec, no step of an adapter or of the grouping worker sets back to
\* PENDING the status of an order that has left PENDING.
C5_NeverBackToPending ==
    [][\A o \in Orders :
          order[o].status # "PENDING" => order'[o].status # "PENDING"]_vars

\* C5 witness: an order has been written by both adapters, first by one and
\* then by the other, and its status is final.
C5_Witness ==
    \E o \in Orders :
        /\ proc_pc["algotest"][o] \in {"done", "raised"}
        /\ order[o].adapter_name = "tradetron"
        /\ order[o].status \in {"SENT", "FAILED"}

\* C6 (as stated; violated): under Spec, an order whose status is SENT has its
\* sent_time set and its two latency fields populated.
C6_SentHasTimeAndLatencies ==
    \A o \in Orders :
        order[o].status = "SENT" =>
            /\ order[o].sent_time # None
            /\ order[o].pipeline_latency # None
            /\ order[o].end_to_end_latency # None

\* the HTTP attempts of the send, in order
Attempts == SelectSeq(snd_log, LAMBDA e : e.ev = "http")

\* C7 (as stated; violated): under SpecSend, a finished send has made at most 2
\* HTTP attempts, a second one if and only if the first outcome was 429, 5xx or
\* timeout, and its result is SENT if and only if the last attempt returned 200.
C7_RetryPolicy ==
    snd_pc = "done" =>
        /\ Len(Attempts) <= 2
        /\ Len(Attempts) = 2 <=>
               (Len(Attempts) >= 1 /\ Attempts[1].kind \in {"429", "5xx", "timeout"})
        /\ snd_result[1] = "SENT" <=>
               (Len(Attempts) >= 1 /\ Attempts[Len(Attempts)].kind = "200")

CallsFor(a, b) == SelectSeq(send_calls[a], LAMBDA c : c.id = b)

C10_ReturnsOwnStatuses ==
    \A a \in Adapters, b \in Batches :
        (/\ ~grouping_enabled(a)
         /\ send_pc[a][b] = "returned"
         /\ \A o \in Range(BatchOrders(b)) : proc_pc[a][o] = "done") =>
            \A i \in 1..Len(BatchOrders(b)) :
                send_ret[a][b][i] = own[a][BatchOrders(b)[i]]

\* C11: under SpecProc, the loop can take the next batch whenever one is queued,
\* whatever the state of the earlier dispatches; a dispatch task that was created
\* can start, and a send_order that was handed a batch can run.
C11_NextBatchNotBlocked ==
    /\ (loop_pc = "waiting" /\ order_queue # <<>>) => ENABLED LoopGet
    /\ \A b \in Batches : disp_pc[b] = "created" => ENABLED DispatchStart(b)
    /\ \A a \in Adapters, b \in Batches :
          send_pc[a][b] = "start" => ENABLED SendOrderRun(a, b, FALSE)

\* C11 witness: the dispatch of batch 1 has not completed -- no adapter has even
\* run its send_order -- while batch 2 was dequeued and handed to every adapter.
C11_Witness ==
    /\ disp_pc[1] = "gathering"
    /\ \A a \in Adapters : send_pc[a][1] = "start"
    /\ disp_pc[2] \in {"gathering", "done"}
    /\ \A a \in Adapters : Len(CallsFor(a, 2)) = 1

\* C12 (as stated; violated): under SpecQueue, batches are dequeued in the order
\* the tailer handed them over: a batch is dequeued only when every batch
\* handed over before it has been dequeued.
C12_DequeuedInHandOverOrder ==
    \A b \in Batches, c \in Batches :
        (b < c /\ disp_pc[c] # "none") => disp_pc[b] # "none"

\* C13 (as stated; violated): under SpecQueue, the queue never holds more than
\* max_queue_size batches and no add_order call ever waits on a full queue: a
\* batch that finds the queue full is dropped and its call is over.
C13_FullQueueDropsWithoutBlocking ==
    /\ max_queue_size > 0 => Len(order_queue) <= max_queue_size
    /\ putters = <<>>
    /\ \A b \in Batches : add_pc[b] \in {"none", "start", "done"}

\* C14: under Spec, send_order of an active grouping adapter is over in one step:
\* it appends the orders of the batch to the grouping queue and returns PENDING
\* for each of them; no order is touched, nothing is sent and no per-order
\* processing is started by it.
C14_GroupedSendOnlyEnqueues ==
    [][\A a \in Adapters, b \in Batches :
          (/\ grouping_enabled(a)
           /\ active[a]
           /\ send_pc[a][b] = "start"
           /\ send_pc'[a][b] # "start") =>
              /\ send_pc'[a][b] = "returned"
              /\ send_ret'[a][b] = [i \in 1..Len(BatchOrders(b)) |-> "PENDING"]
              /\ gq'[a] = gq[a] \o BatchOrders(b)
              /\ order' = order
              /\ worker_batch' = worker_batch
              /\ proc_pc' = proc_pc]_vars

\* C14 witness: the grouped send_order of batch 1 has returned PENDING twice, its
\* two orders are in the grouping queue and the worker has not taken them yet.
C14_Witness ==
    /\ active["tradetron"]
    /\ send_pc["tradetron"][1] = "returned"
    /\ send_ret["tradetron"][1] = <<"PENDING", "PENDING">>
    /\ gq["tradetron"] = <<1, 2>>
    /\ worker_pc["tradetron"] = "dequeue"
    /\ \A o \in Orders : order[o].status = "PENDING"

\* C15: under Spec, every send_order call returns, and what it returns has one
\* status for each order of its batch, whichever path it took; a call on an
\* inactive adapter returns FAILED for every order at once, and neither queues
\* an order for grouping nor starts a worker or any per-order processing.
C15_OneStatusPerOrder ==
    [][\A a \in Adapters, b \in Batches :
          /\ send_pc'[a][b] # "raised"
          /\ send_pc'[a][b] = "returned" =>
                /\ Len(send_ret'[a][b]) = Len(BatchOrders(b))
                /\ \A i \in 1..Len(BatchOrders(b)) :
                      send_ret'[a][b][i] \in {"PENDING", "SENT", "FAILED"}
          /\ (~active[a] /\ send_pc[a][b] = "start" /\ send_pc'[a][b] # "start") =>
                /\ send_pc'[a][b] = "returned"
                /\ send_ret'[a][b] = [i \in 1..Len(BatchOrders(b)) |-> "FAILED"]
                /\ gq' = gq
                /\ worker_pc' = worker_pc
                /\ proc_pc' = proc_pc
                /\ order' = order]_vars

\* C15 witness: the grouping adapter was inactive when it was handed batch 1 and
\* answered FAILED twice with nothing queued and no worker; the other adapter
\* answered FAILED twice because the processing of an order raised.
C15_Witness ==
    /\ ~active["tradetron"]
    /\ send_pc["tradetron"][1] = "returned"
    /\ send_ret["tradetron"][1] = <<"FAILED", "FAILED">>
    /\ gq["tradetron"] = <<>>
    /\ worker_pc["tradetron"] = "none"
    /\ send_pc["algotest"][1] = "returned"
    /\ send_ret["algotest"][1] = <<"FAILED", "FAILED">>
    /\ \E o \in Range(BatchOrders(1)) : proc_pc["algotest"][o] = "raised"

\* C16: under Spec, every step in which a non-grouping adapter finishes an
\* order that was mapped to n URLs, k of whose n gathered sends answered SENT
\* (whatever the other n - k did), marks the order SENT with a sent_time and no
\* error exactly when k = n; otherwise it marks it FAILED without a sent_time,
\* with the error 'Sent to k/n URLs' when 0 < k < n and 'Failed to send to all
\* URLs' when k = 0, and returns normally.
C16_SentIffAllUrlsSent ==
    [][\A a \in Adapters, o \in Orders, k \in 0..NUrls :
          (~grouping_enabled(a) /\ ProcessSingleOrder(a, o, "mapped", k)) =>
              LET n == NUrls
              IN  /\ proc_pc'[a][o] = "done"
                  /\ order'[o].adapter_name = a
                  /\ order'[o].status = "SENT" <=> k = n
                  /\ k = n => /\ order'[o].sent_time # None
                              /\ order'[o].error_message = None
                  /\ k < n => /\ order'[o].status = "FAILED"
                              /\ order'[o].sent_time = None
                  /\ (0 < k /\ k < n) => order'[o].error_message = "Sent to k/n URLs"
                  /\ k = 0 => order'[o].error_message = "Failed to send to all URLs"]_vars

\* C16 witness: the non-grouping adapter has finished both orders of batch 1;
\* order 1 was delivered to some but not all of its URLs and is FAILED with the
\* partial-delivery error, order 2 was delivered to all of them and is SENT.
C16_Witness ==
    /\ proc_pc["algotest"][1] = "done"
    /\ order[1].adapter_name = "algotest"
    /\ order[1].status = "FAILED"
    /\ order[1].sent_time = None
    /\ order[1].error_message = "Sent to k/n URLs"
    /\ proc_pc["algotest"][2] = "done"
    /\ order[2].adapter_name = "algotest"
    /\ order[2].status = "SENT"
    /\ order[2].sent_time # None

\* C17 (as stated; violated): under Spec, a grouping worker that has stopped
\* leaves a queue that is closed and empty: every order enqueued before close()
\* was dequeued before the worker terminated.
C17_WorkerExitsOnlyClosedAndEmpty ==
    \A a \in Adapters :
        worker_pc[a] = "stopped" => (gq_closed[a] /\ gq[a] = <<>>)

\* the sequence p is a prefix of the sequence q
IsPrefix(p, q) == Len(p) <= Len(q) /\ p = SubSeq(q, 1, Len(p))

\* C18: under SpecGq, the orders dequeued so far followed by the orders still
\* queued are exactly the orders enqueued so far, in enqueue order (so that the
\* dequeued orders are a prefix of the enqueued ones: none lost, duplicated or
\* reordered), and every dequeue_batch on a non-empty queue takes the
\* min(group_limit, queue length) oldest orders, in order.
C18_FifoBoundedBatches ==
    [][\A a \in Adapters :
          /\ enqueued[a] = dequeued[a] \o gq[a]
          /\ enqueued'[a] = dequeued'[a] \o gq'[a]
          /\ IsPrefix(dequeued'[a], enqueued'[a])
          /\ (gq[a] # <<>> /\ dequeued'[a] # dequeued[a]) =>
                LET n == IF GroupLimit <= Len(gq[a]) THEN GroupLimit ELSE Len(gq[a])
                IN  /\ dequeued'[a] = dequeued[a] \o SubSeq(gq[a], 1, n)
                    /\ gq'[a] = SubSeq(gq[a], n + 1, Len(gq[a]))
                    /\ worker_pc'[a] = "sending" => worker_batch'[a] = SubSeq(gq[a], 1, n)]_vars

\* C18 witness: three enqueue calls have queued four orders and the worker has
\* dequeued all of them in that order, in batches of group_limit orders; the
\* batch it holds joins orders of two enqueue calls.
C18_Witness ==
    /\ enqueued["tradetron"] = <<1, 2, 3, 4>>
    /\ dequeued["tradetron"] = <<1, 2, 3, 4>>
    /\ gq["tradetron"] = <<>>
    /\ worker_pc["tradetron"] = "sending"
    /\ worker_batch["tradetron"] = <<3, 4>>

\* C19: under SpecRLFair (ready tasks run, due timers fire, the clock keeps
\* advancing), every acquire(n) call with n <= limit eventually returns, and
\* every caller that sleeps eventually wakes and re-enters the acquisition loop.
C19_EveryAcquireReturns ==
    /\ \A c \in Callers : (acq[c].pc = "loop") ~> (acq[c].pc = "done")
    /\ \A c \in Callers : (acq[c].pc = "sleeping") ~> (acq[c].pc = "loop")

\* C19 witness: every caller has returned from acquire, after more than one
\* window roll, the clock having reached MaxTime.
C19_Witness ==
    /\ \A c \in Callers : acq[c].pc = "done"
    /\ rolls >= 2
    /\ now = MaxTime
    /\ window_start = MaxTime - Period

\* the callers whose acquire() has returned
Granted == {c \in AllCallers : acq[c].pc = "done"}

\* the callers that have called acquire()
Issued == {c \in AllCallers : acq[c].pc # "idle"}

\* C20: under SpecRLBurst (a fresh limiter, K acquire(1) calls all issued at
\* t0 = 0, an event loop that is not held up), once every issued call has had
\* its first try exactly min(K, limit) calls have returned, at t0 and without
\* having slept, and the i-th grant happens in the window that starts at
\* t0 + floor((i - 1) / limit) * period.
C20_BurstGrantWindows ==
    [][/\ (now' = 0 /\ \A c \in AllCallers : acq'[c].pc # "loop") =>
             /\ Cardinality(Granted') =
                   IF Cardinality(Issued') <= Limit THEN Cardinality(Issued') ELSE Limit
             /\ \A c \in Granted' : acq'[c].wake = 0
       /\ \A c \in AllCallers :
             (acq[c].pc = "loop" /\ acq'[c].pc = "done") =>
                LET i == Cardinality(Granted')
                IN  /\ window_start' = ((i - 1) \div Limit) * Period
                    /\ window_start' <= now'
                    /\ now' < window_start' + Period]_vars

\* C20 witness: five calls were issued at t0; two returned in the window that
\* starts at 0, two in the window that starts at period, and the fifth in the
\* window that starts at 2 * period.
C20_Witness ==
    /\ Cardinality(Issued) = 2 * Limit + 1
    /\ Granted = Issued
    /\ window_start = 2 * Period
    /\ now = 2 * Period
    /\ current_count = 1
    /\ rolls = 2

\* C21 (as stated; violated): under SpecSys, when OrderProcessingSystem.stop()
\* has completed the tailer is stopped and no grouping worker is running any
\* more, so that no order can still be sent.
C21_StopClosesAdapters ==
    stop_pc = "done" =>
        /\ monitor_stopped
        /\ \A a \in Adapters :
              grouping_enabled(a) => worker_pc[a] \in {"none", "stopped"}

\* C22: under SpecTail, a file-change notification that finds trading not
\* allowed passes none of its lines on to the parser, however many lines it
\* read and whatever they contain.
C22_GatePerNotification ==
    [][\A openOk \in BOOLEAN : OnModified(openOk, FALSE) => forwarded' = forwarded]_vars

\* C22 witness: two lines were appended after the file was opened, they were
\* read under a closed gate and discarded: the read position is past them and
\* nothing was passed on.
C22_Witness ==
    /\ gate_dropped
    /\ forwarded = <<>>
    /\ file_handle = "open"
    /\ last_position = Len(file)
    /\ last_position >= open_position + 2
    /\ Len(ReadLines(From(file, open_position))) >= 2

C24_LineQualifies(line) ==
    /\ line.log_type = "TRADING"
    /\ line.marker
    /\ line.strategy = "active"
    /\ IsQtyInt(line.qty)
    /\ MinQuantity <= QtyInt(line.qty) /\ QtyInt(line.qty) <= MaxQuantity

C25_TradingAllowedIff ==
    hours.called =>
        LET v == hours.v
            t == hours.time
            dayOk == hours.weekday \in v.allowed_weekdays
            timeOk == \/ (v.trading_start <= t /\ t <= v.trading_end)
                      \/ (v.enable_premarket /\ v.premarket_start <= t /\ t < v.trading_start)
                      \/ (v.enable_postmarket /\ v.trading_end < t /\ t <= v.postmarket_end)
        IN  /\ hours.allowed <=> (dayOk /\ timeOk)
            /\ ~dayOk => hours.reason = "Non-trading day"
            /\ (dayOk /\ ~timeOk) => hours.reason = "Outside trading hours"

\* C25 witness: with post-market enabled, a call at exactly trading_end on an
\* allowed weekday, answered as regular trading hours
C25_Witness ==
    /\ hours.called
    /\ hours.weekday \in hours.v.allowed_weekdays
    /\ hours.v.enable_postmarket
    /\ hours.v.trading_start < hours.v.trading_end
    /\ hours.v.trading_end < hours.v.postmarket_end
    /\ hours.time = hours.v.trading_end
    /\ hours.allowed /\ hours.reason = "Regular trading hours"

\* C26: with counter_size S >= 1, a condition key that has been looked up N >= 1
\* times has the slot counter ((N - 1) mod S) + 1, which lies in 1..S; a key
\* never looked up has no counter; so a key's counter depends on its own
\* lookups only
C26_SlotCounterRotates ==
    counter_size >= 1 =>
        \A c \in Conditions :
            IF lookups[c] = 0
              THEN global_conditions_map[c] = 0
              ELSE /\ global_conditions_map[c] = ((lookups[c] - 1) % counter_size) + 1
                   /\ global_conditions_map[c] \in 1..counter_size

\* C26 witness: with counter_size 2 one key has been looked up three times and
\* is back at slot 1 while the other key, looked up once, is at slot 1 too
C26_Witness ==
    /\ counter_size = 2
    /\ lookups["NIFTY_BUY_CE"] = 3 /\ global_conditions_map["NIFTY_BUY_CE"] = 1
    /\ lookups["NIFTY_SELL_PE"] = 1 /\ global_conditions_map["NIFTY_SELL_PE"] = 1

\* C27 (as the claim states it): a batch of n orders mapped for a strategy with
\* w webhook configs gives w payloads; payload j carries the url of webhook j
\* as auth-token and 4n slots, per order in batch order the signal (the one
\* random value R in 1..10000), the quantity (order.quantity times the
\* multiplier of webhook j), the strike and the expiry (both as in the order)
C27_PayloadPerWebhook ==
    (mapped.called /\ ~mapped.raised) =>
        LET n == Len(mapped.orders)
            w == Len(mapped.webhook_configs)
        IN  /\ Len(mapped.payloads) = w
            /\ mapped.random_index_val \in 1..10000
            /\ \A j \in 1..w :
                 LET p  == mapped.payloads[j]
                     wc == mapped.webhook_configs[j]
                 IN  /\ p.auth_token = wc.url
                     /\ Len(p.slots) = 4 * n
                     /\ \A i \in 1..n :
                          /\ p.slots[4 * i - 3].kind = "Signal"
                          /\ p.slots[4 * i - 3].int = mapped.random_index_val
                          /\ p.slots[4 * i - 2].kind = "Quantity"
                          /\ p.slots[4 * i - 2].int =
                                 IntOfDigits(mapped.orders[i].quantity) * wc.multiplier
                          /\ p.slots[4 * i - 1].kind = "Strike"
                          /\ p.slots[4 * i - 1].str = mapped.orders[i].strike
                          /\ p.slots[4 * i].kind = "Expiry"
                          /\ p.slots[4 * i].str = mapped.orders[i].expiry

\* C28 (as the claim states it): when the mapping of one order of a batch
\* raised in an adapter that does not group, every other order of the batch
\* that this adapter has processed, and whose record is this adapter's, has
\* its own send outcome as its place in the statuses send_order returned
C28_MappingFailureSingleOrder ==
    \A a \in Adapters, b \in Batches :
        (/\ ~grouping_enabled(a)
         /\ send_pc[a][b] = "returned"
         /\ \E o \in Range(BatchOrders(b)) : proc_pc[a][o] = "raised") =>
            \A i \in 1..Len(BatchOrders(b)) :
                LET o == BatchOrders(b)[i]
                IN  (proc_pc[a][o] = "done" /\ order[o].adapter_name = a) =>
                        /\ order[o].status = own[a][o]
                        /\ send_ret[a][b][i] = own[a][o]

\* what C29 requires of the cache once the document doc has been loaded
C29_HoldsExactly(c, doc) ==
    LET names == {doc.strategies[i] : i \in 1..Len(doc.strategies)}
    IN  /\ \A n \in StrategyNames, p \in CacheProviders :
              c.strategy_urls[<<n, p>>] = IF n \in names THEN doc.version ELSE 0
        /\ \A n \in StrategyNames :
              c.active_strategy_map[n] = IF n \in names THEN doc.version ELSE 0
        /\ c.index_mappings = Section(doc)
        /\ c.lot_size_mappings = Section(doc)
        /\ c.monthly_expiry_mappings = Section(doc)

\* C29 (as the claim states it): when a reload() of a cache that is not shut
\* down returns, every map of the cache holds exactly the entries of the
\* document just loaded: the webhook lists and active flags of its strategies
\* and of no other strategy, and its index ids, lot sizes and monthly expiries
C29_ReloadReplacesEverything ==
    [][\A doc \in Documents :
          (Reload(doc) /\ ~cache.is_shutdown /\ ~reloaded'.raised) =>
              C29_HoldsExactly(cache', doc)]_vars

\* C30: in a send_order call of an adapter with a per-order delay, an order
\* past the first has its token asked for or its send started only when the
\* order before it has been sent and the delay after it has elapsed, so at most
\* one order of the call is under way; and the last order is followed by no
\* delay
C30_OneAtATimeWithDelay ==
    \A c \in SeqCalls :
        /\ \A i \in 1..(SeqBatchSize - 1) :
              seq_st[c][i + 1] # "pending" => seq_st[c][i] = "rested"
        /\ seq_st[c][SeqBatchSize] \notin {"sleeping", "rested"}

\* C30 witness: with the rate limiter active, a call has sent its first order,
\* slept, and is sending its last order while the other call is sleeping
\* after its own first order; and a call has returned after its last order
C30_Witness ==
    /\ seq_rate_limiter_active
    /\ seq_st["first"][1] = "rested" /\ seq_st["first"][SeqBatchSize] = "processed"
    /\ seq_pc["first"] = "returned"
    /\ seq_st["second"][1] = "sleeping"

\* the grouping worker's log from its latest "dequeue" at or before position i
BatchStart(i) ==
    CHOOSE j \in 1..i : wk_log[j] = "dequeue" /\ \A k \in (j + 1)..i : wk_log[k] # "dequeue"

\* the number of entries ev of the worker's log between positions j and i
CountIn(j, i, ev) == Cardinality({k \in j..i : wk_log[k] = ev})

\* C31: for every batch the grouping worker has dequeued and mapped, exactly one
\* rate-limiter token was acquired between the dequeue and the mapping when the
\* limiter is active (none is asked of a disabled limiter), whatever the size
\* of the batch and the number of webhooks; the inter-batch delay starts only
\* after the batch's requests were started and all of them have ended, so no
\* delay precedes the requests of the first batch
C31_OneTokenThenDelayAfterSends ==
    /\ \A i \in 1..Len(wk_log) :
          /\ wk_log[i] = "map" =>
                CountIn(BatchStart(i), i, "token") = (IF wk_rate_limiter_active THEN 1 ELSE 0)
          /\ wk_log[i] = "sleep" =>
                /\ CountIn(BatchStart(i), i, "send") = 1
                /\ \A k \in (i + 1)..Len(wk_log) :
                      wk_log[k] = "done" => \E d \in (i + 1)..k : wk_log[d] = "dequeue"
          /\ wk_log[i] = "token" =>
                \A k \in BatchStart(i)..i : wk_log[k] \notin {"map", "send"}
    /\ \A a \in Adapters : worker_pc[a] = "delay" => wk_inflight = 0

\* C31 witness: with the limiter active and a delay configured the worker has
\* sent a batch of two orders to two webhooks and a second batch, each after
\* one token and each followed by its delay
C31_Witness ==
    /\ wk_rate_limiter_active /\ wk_order_delay_set
    /\ Len(dequeued["tradetron"]) > GroupLimit
    /\ CountIn(1, Len(wk_log), "token") = 2
    /\ CountIn(1, Len(wk_log), "done") >= 3
    /\ CountIn(1, Len(wk_log), "slept") = 2

\* C32: dequeue_batch returns the empty batch only when the grouping queue is
\* closed and empty; a consumer blocked in dequeue_batch while the queue holds
\* orders eventually returns a non-empty batch, and one blocked when the queue
\* has been closed eventually returns
C32_NoLostWakeup ==
    /\ [][\A a \in Adapters :
            (worker_pc[a] # "stopped" /\ worker_pc'[a] = "stopped"
               /\ wk_log' = Append(wk_log, "empty"))
            => (gq_closed[a] /\ gq[a] = <<>> /\ worker_pc[a] \in {"dequeue", "woken"})]_vars
    /\ \A a \in Adapters :
          /\ (worker_pc[a] \in {"waiting", "woken"} /\ gq[a] # <<>>)
                ~> (worker_pc[a] \in {"acquire", "map"} /\ worker_batch[a] # <<>>)
          /\ (worker_pc[a] \in {"waiting", "woken"} /\ gq_closed[a])
                ~> (worker_pc[a] \notin {"waiting", "woken"})

\* C32 witness: the consumer has returned the orders of the first batch, blocked
\* on the empty queue and was woken by close()
C32_Witness ==
    /\ worker_pc["tradetron"] = "woken"
    /\ gq_closed["tradetron"] /\ gq["tradetron"] = <<>>
    /\ Len(dequeued["tradetron"]) = Len(BatchOrders(1))
    /\ Len(enqueued["tradetron"]) = Len(BatchOrders(1))

\* C33: a send_order call on an adapter whose worker task exists never starts
\* another one, whatever the worker is doing; the task, once created, stays;
\* and a worker that has exited stays exited: it dequeues nothing more and no
\* order's record changes, so the orders handed to send_order afterwards are
\* never dispatched and stay PENDING
C33_OneWorkerForLife ==
    [][\A a \in Adapters :
          /\ (send_calls'[a] # send_calls[a] /\ worker_pc[a] # "none")
                => worker_pc'[a] = worker_pc[a]
          /\ worker_pc[a] # "none" => worker_pc'[a] # "none"
          /\ worker_pc[a] = "stopped"
                => /\ worker_pc'[a] = "stopped"
                   /\ dequeued'[a] = dequeued[a]
                   /\ order' = order]_vars

\* C33 witness: the worker sent the first batch and exited at shutdown; the
\* second batch was handed to send_order after that: no task was started for
\* it and its order is still PENDING
C33_Witness ==
    /\ worker_pc["tradetron"] = "stopped"
    /\ Len(send_calls["tradetron"]) = 2
    /\ send_pc["tradetron"][2] = "returned"
    /\ send_ret["tradetron"][2] = AllStatus(BatchOrders(2), "FAILED")
    /\ dequeued["tradetron"] = BatchOrders(1)
    /\ order[1].status = "SENT"
    /\ \A o \in Range(BatchOrders(2)) : order[o].status = "PENDING"

\* C34 (as stated; violated): once stop() has been called the loop dequeues no
\* batch and creates no dispatch task, and when stop() has returned every
\* dispatch task ever created has completed
C34_StopEndsDispatch ==
    [][/\ stop_pc # "none"
            => /\ \A b \in Batches : disp_pc[b] = "none" => disp_pc'[b] = "none"
               /\ Len(order_queue') >= Len(order_queue)
       /\ stop_pc' = "done" => \A b \in Batches : disp_pc'[b] \in {"none", "done"}]_vars

RECURSIVE Flat(_)
\* the bytes of a sequence of lines, in order
Flat(lines) == IF lines = <<>> THEN <<>> ELSE Head(lines) \o Flat(Tail(lines))

\* C37: a notification that is discarded by the trading-hours gate leaves the
\* read offset at the end of what it read; the offset never moves back; and
\* whatever a notification passes on is text it read from the offset on: so
\* lines read under a closed gate are passed on by no later notification
C37_GatedLinesAreSkipped ==
    [][/\ \A openOk \in BOOLEAN :
             (OnModified(openOk, FALSE) /\ ~(file_handle = "none" /\ ~openOk))
                => last_position' = Len(file) /\ forwarded' = forwarded
       /\ last_position' >= last_position
       /\ (forwarded' # forwarded /\ file_handle = "open")
             => /\ Len(forwarded') > Len(forwarded)
                /\ SubSeq(forwarded', 1, Len(forwarded)) = forwarded
                /\ Flat(SubSeq(forwarded', Len(forwarded) + 1, Len(forwarded')))
                      = SubSeq(file, last_position + 1, last_position')]_vars

\* C37 witness: text appended after the first sight was read under a closed
\* gate, more text was appended and passed on under an open gate: what was
\* passed on is shorter than what was read
C37_Witness ==
    /\ gate_dropped
    /\ file_handle = "open"
    /\ forwarded # <<>>
    /\ last_position = Len(file)
    /\ Len(Flat(forwarded)) < last_position - open_position

\* C35 (as stated; violated): nothing a notification passes on was in its file
\* when the file was first opened; the created-event of the new day's file
\* drops the handle on the old file and, when the open succeeds, leaves the
\* offset at the new file's end; and after the created-event whatever a
\* modified-event for the new path passes on was read from the new file
C35_RotationStartsAtEnd ==
    /\ [](\A i \in 1..Len(rot_out) : rot_out[i].lo >= rot_first_seen[rot_out[i].from])
    /\ [][\A openOk \in BOOLEAN, allowed \in BOOLEAN :
             OnCreated(openOk, allowed)
                => /\ rot_handle' # "day1"
                   /\ openOk => /\ rot_handle' = "day2"
                                /\ rot_last_position' = Len(rot_file["day2"])
                                /\ rot_out' = rot_out]_vars
    /\ [][\A openOk \in BOOLEAN, allowed \in BOOLEAN :
             (OnModifiedAt("day2", openOk, allowed) /\ rot_out' # rot_out)
                => rot_out'[Len(rot_out')].from = "day2"]_vars

\* C36 (as stated; violated): when the mapping of a dequeued batch returns
\* nothing or raises, every order of the batch is FAILED after that step, no
\* request was started for the batch, and the worker is back at the top of its
\* loop
C36_FailedBatchMarkedWorkerGoesOn ==
    [][\A a \in Adapters, res \in MapResults \ {"mapped"}, n \in 1..NUrls :
          GroupingMap(a, res, n)
             => /\ \A o \in Range(worker_batch[a]) : order'[o].status = "FAILED"
                /\ wk_inflight' = 0
                /\ CountIn(1, Len(wk_log), "send") = Cardinality({k \in 1..Len(wk_log') : wk_log'[k] = "send"})
                /\ worker_pc'[a] = "dequeue"]_vars

\* C38: the grouping worker dequeues a batch only when the batch before it has
\* had its status recorded, which for a batch that was sent comes after all its
\* requests have ended and, with a delay configured, after the delay; requests
\* are in flight only for the one batch the worker holds, and none is in flight
\* when a batch is dequeued
C38_OneBatchAtATime ==
    /\ [](\A i \in 2..Len(wk_log) : wk_log[i] = "dequeue" => wk_log[i - 1] = "status")
    /\ [](\A i \in 1..Len(wk_log) :
             (wk_log[i] = "status" /\ CountIn(BatchStart(i), i, "send") = 1)
                => /\ wk_order_delay_set => wk_log[i - 1] = "slept"
                   /\ CountIn(BatchStart(i), i, "done") >= 1)
    /\ [](\A a \in Adapters :
             (grouping_enabled(a) /\ wk_inflight > 0)
                => worker_pc[a] = "sending" /\ worker_batch[a] # <<>>)
    /\ [][\A a \in Adapters :
             dequeued'[a] # dequeued[a] => wk_inflight = 0 /\ worker_batch[a] = <<>>]_vars

\* C38 witness: the first batch was sent, the delay slept and its status
\* recorded; the worker then dequeued the second batch, whose two requests are
\* in flight
C38_Witness ==
    /\ wk_order_delay_set
    /\ CountIn(1, Len(wk_log), "dequeue") = 2
    /\ CountIn(1, Len(wk_log), "slept") = 1
    /\ CountIn(1, Len(wk_log), "status") = 1
    /\ worker_pc["tradetron"] = "sending"
    /\ wk_inflight = 2
    /\ order[1].status = "SENT"

\* C39: a map_order_batch call that fails for want of a webhook config leaves
\* global_conditions_map as it found it; and in the successful call that
\* follows such a failure the slot number of every order is the next one, in
\* the rotation 1..counter_size, after the counter its condition had before the
\* failed call and the orders of the same condition before it in the batch
C39_NoWebhookLeavesCounters ==
    [][(counter_size > 0 /\ mapped'.called)
          => /\ mapped'.webhook_configs = <<>>
                   => /\ global_conditions_map' = global_conditions_map
                      /\ mapped'.raised /\ mapped'.payloads = <<>>
             /\ (NoWebhookFailure(mapped) /\ ~mapped'.raised)
                   => \A i \in 1..Len(mapped'.orders) :
                         mapped'.payloads[1].slots[4 * (i - 1) + 1].num
                            = ((global_conditions_map[mapped'.orders[i].condition]
                                + CountOf(SubSeq(mapped'.orders, 1, i), mapped'.orders[i].condition)
                                - 1) % counter_size) + 1]_vars

\* C39 witness: with counter_size 2 a batch took slot 1 of a condition; the next
\* call, with two orders of that condition, failed for want of a webhook
\* config and the condition is still at slot 1 after one lookup
C39_Witness ==
    /\ counter_size = 2
    /\ NoWebhookFailure(mapped)
    /\ CountOf(mapped.orders, "NIFTY_BUY_CE") = 2
    /\ lookups["NIFTY_BUY_CE"] = 1
    /\ global_conditions_map["NIFTY_BUY_CE"] = 1

\* what a caller can observe of a send: whether it still runs, what it returned,
\* and the requests and sleeps it made, in order
Observed(pc, result, log) == [pc |-> pc, result |-> result, log |-> log]

\* the retry state machine read off the outcomes alone, with no reference to the
\* function that runs: attempt i of atts is answered after the events of log
RECURSIVE Replay(_, _, _)
Replay(atts, i, log) ==
    IF i > Len(atts) THEN Observed("loop", <<None, None>>, log)
    ELSE
      LET a    == atts[i]
          log1 == Append(log, a)
          more == i <= MaxRetries
      IN CASE a.kind = "200" -> Observed("done", <<"SENT", None>>, log1)
           [] a.kind = "429" /\ a.hdr # "absent" /\ ~IsIntText(a.hdr) ->
                Observed("done", <<"FAILED", "invalid literal for int()">>, log1)
           [] a.kind = "429" /\ (a.hdr = "absent" \/ IsIntText(a.hdr)) ->
                IF more THEN Replay(atts, i + 1, Append(log1, Sleep(RetryAfter(a.hdr))))
                        ELSE Observed("done", <<"FAILED", "Rate limit exceeded">>, log1)
           [] a.kind = "5xx" ->
                IF more THEN Replay(atts, i + 1, log1)
                        ELSE Observed("done", <<"FAILED", "Server error">>, log1)
           [] a.kind = "other" -> Observed("done", <<"FAILED", "HTTP status">>, log1)
           [] a.kind = "timeout" ->
                IF more THEN Replay(atts, i + 1, log1)
                        ELSE Observed("done", <<"FAILED", "Request timeout">>, log1)
           [] a.kind = "transport" -> Observed("done", <<"FAILED", "RequestError">>, log1)
           [] a.kind = "exception" -> Observed("done", <<"FAILED", "Exception">>, log1)

\* C40: under SpecSend, whichever of _send_mapped_order and
\* _send_batch_mapped_order runs, what can be observed of the call (still running
\* or returned, the status and error message returned, the attempts made and the
\* sleeps between them) is determined by the sequence of HTTP outcomes alone: it
\* is what the one retry state machine gives for the outcomes met so far, so the
\* two functions agree on every outcome sequence; with a method that is neither
\* POST nor GET both return FAILED without any attempt.
C40_SendLoopsEquivalent ==
    snd_pc \in {"loop", "done"} =>
        IF provider_method \in {"POST", "GET"}
          THEN /\ Len(Attempts) <= MaxRetries + 1
               /\ Observed(snd_pc, snd_result, snd_log) = Replay(Attempts, 1, <<>>)
          ELSE /\ snd_log = <<>>
               /\ snd_pc = "done" => snd_result = <<"FAILED", "Unsupported HTTP method">>

\* C40 witness: the grouped-path function has met a 5xx and then a timeout, the
\* case its loop leaves by the break after the try block where the per-order
\* loop leaves by its while condition, and has returned FAILED 'Request timeout'
\* after two attempts and no sleep.
C40_Witness ==
    /\ snd_variant = "batch"
    /\ snd_pc = "done"
    /\ Len(snd_log) = 2
    /\ snd_log[1].kind = "5xx"
    /\ snd_log[2].kind = "timeout"
    /\ snd_result = <<"FAILED", "Request timeout">>
====
